---- MODULE Spec2Model ----
(***************************************************************************)
(* A model of the rust-sftp client: the request dispatcher (ClientSender), *)
(* the response router (ClientReceiver), the handshake of Client::new and  *)
(* the typed session surface (Client, File) built on send_receive.         *)
(*                                                                         *)
(* Spec        : handshake, dispatcher and router running concurrently.    *)
(* FairSpec    : Spec with weak fairness of every thread's next step.      *)
(* SurfaceSpec : the typed operations of Client and File, with the value   *)
(*               send_receive returns drawn from all it can return.        *)
(***************************************************************************)
EXTENDS Integers, Sequences, FiniteSets, TLC

\* ------------------------------------------------------------- bounds
NumCallers == 2      \* caller threads sharing the Client
MaxReqs    == 2      \* requests dispatched over the client's lifetime
MaxOffset  == 4      \* largest File cursor explored
MaxBuf     == 2      \* largest caller buffer / reply payload explored

Callers == 1..NumCallers

\* ------------------------------------------------ protocol constants
SSH_FXP_INIT     == 1
SSH_FXP_VERSION  == 2
SSH_FXP_OPEN     == 3
SSH_FXP_CLOSE    == 4
SSH_FXP_READ     == 5
SSH_FXP_WRITE    == 6
SSH_FXP_LSTAT    == 7
SSH_FXP_FSTAT    == 8
SSH_FXP_SETSTAT  == 9
SSH_FXP_FSETSTAT == 10
SSH_FXP_OPENDIR  == 11
SSH_FXP_READDIR  == 12
SSH_FXP_REMOVE   == 13
SSH_FXP_MKDIR    == 14
SSH_FXP_RMDIR    == 15
SSH_FXP_REALPATH == 16
SSH_FXP_STAT     == 17
SSH_FXP_RENAME   == 18
SSH_FXP_READLINK == 19
SSH_FXP_STATUS   == 101
SSH_FXP_HANDLE   == 102
SSH_FXP_DATA     == 103
SSH_FXP_NAME     == 104
SSH_FXP_ATTRS    == 105

\* type ReqId = u32: next_id truncates the usize counter to 32 bits, kept
\* here as two 16-bit limbs.
Limb == 65536

\* The version Client::new sends in INIT and accepts in VERSION.
SftpVersion == 3

\* ------------------------------------------- machine integers
\* A 64-bit machine word (u64, i64, and usize on the 64-bit targets) as
\* four 16-bit limbs, least significant first.  `as' casts between u64 and
\* i64 keep the limbs; only their reading (unsigned or two's complement)
\* differs.
U64Limbs == 4

\* The word holding a small natural number n < Limb.
U64(n) == [j \in 1..U64Limbs |-> IF j = 1 THEN n ELSE 0]

\* The carry into limb j of a + b.
RECURSIVE carry_into(_, _, _)
carry_into(a, b, j) ==
    IF j = 1 THEN 0
    ELSE (a[j - 1] + b[j - 1] + carry_into(a, b, j - 1)) \div Limb

\* a + b on words of the same width, wrapping.
wrapping_add(a, b) ==
    [j \in DOMAIN a |-> (a[j] + b[j] + carry_into(a, b, j)) % Limb]

\* The sign bit of a word read as two's complement.
is_negative(a) == a[Len(a)] >= Limb \div 2

\* Whether a + b overflows, on unsigned and on signed words.
overflows_unsigned(a, b) == carry_into(a, b, Len(a) + 1) = 1
overflows_signed(a, b) ==
    /\ is_negative(a) = is_negative(b)
    /\ is_negative(wrapping_add(a, b)) # is_negative(a)

\* ---------------------------------------------------------- packets
\* SftpResponsePacket.  One record shape for all variants: `code' is the
\* status code of a Status ("-" otherwise) and `n' the variant's payload
\* (version, handle, data length, name count, size or raw type byte).
Packet(kind, code, n) == [kind |-> kind, code |-> code, n |-> n]

Version(v)   == Packet("Version", "-", v)
Status(c)    == Packet("Status", c, 0)
Handle(h)    == Packet("Handle", "-", h)
Data(len)    == Packet("Data", "-", len)
Name(count)  == Packet("Name", "-", count)
Attrs(size)  == Packet("Attrs", IF size < 0 THEN "nosize" ELSE "size", size)
Unknown(ty)  == Packet("Unknown", "-", ty)

\* FxpStatusCode
FxpStatusCode == {"Ok", "EOF", "NoSuchFile", "PermissionDenied", "Failure",
                  "BadMessage", "NoConnection", "ConnectionLost",
                  "OpUnsupported", "UnknownCode"}

\* ----------------------------------------------------------- errors
\* error::Error
None == [name |-> "None"]
Io == [name |-> "Io"]
UnexpectedData == [name |-> "UnexpectedData"]
UnexpectedEOF == [name |-> "UnexpectedEOF"]
Utf8 == [name |-> "Utf8"]
NoMatchingRequest(id) == [name |-> "NoMatchingRequest", id |-> id]
MismatchedVersion(v) == [name |-> "MismatchedVersion", version |-> v]
UnexpectedResponse(p) == [name |-> "UnexpectedResponse", packet |-> p]
FromServer(p) == [name |-> "FromServer", status |-> p]
ReceiverDisconnected(e) == [name |-> "ReceiverDisconnected", cause |-> e]

\* Result<T>: Ok(v) or Err(e).
Ok(v)  == [ok |-> TRUE, v |-> v]
Err(e) == [ok |-> FALSE, e |-> e]
NoResult == [ok |-> FALSE, e |-> None]

\* ------------------------------------------- typed session surface
\* The typed operations of Client and File that are one send_receive
\* followed by a match on the reply.
ClientOps == {"stat", "lstat", "setstat", "mkdir", "rmdir", "realpath",
              "rename", "readlink", "remove", "open", "readdir"}
FileOps   == {"File.stat", "File.setstat"}
TypedOps  == ClientOps \cup FileOps

\* P::msg_type() of the request each typed operation sends.
msg_type(op) ==
    CASE op = "stat"         -> SSH_FXP_STAT
      [] op = "lstat"        -> SSH_FXP_LSTAT
      [] op = "setstat"      -> SSH_FXP_SETSTAT
      [] op = "mkdir"        -> SSH_FXP_MKDIR
      [] op = "rmdir"        -> SSH_FXP_RMDIR
      [] op = "realpath"     -> SSH_FXP_REALPATH
      [] op = "rename"       -> SSH_FXP_RENAME
      [] op = "readlink"     -> SSH_FXP_READLINK
      [] op = "remove"       -> SSH_FXP_REMOVE
      [] op = "open"         -> SSH_FXP_OPEN
      [] op = "readdir"      -> SSH_FXP_OPENDIR
      [] op = "File.stat"    -> SSH_FXP_FSTAT
      [] op = "File.setstat" -> SSH_FXP_FSETSTAT
      [] op = "read"         -> SSH_FXP_READ
      [] op = "write"        -> SSH_FXP_WRITE
      [] op = "close"        -> SSH_FXP_CLOSE
      [] op = "File.drop"    -> SSH_FXP_CLOSE
      [] op = "ReadDir.drop" -> SSH_FXP_CLOSE
      [] op = "ReadDir.next" -> SSH_FXP_READDIR

\* The value of a successful typed call, in the packet record shape.
Unit == Packet("Unit", "-", 0)
NameEntry(i) == Packet("NameEntry", "-", i)
FileOf(h) == Packet("File", "-", h)
ReadDirOf(h) == Packet("ReadDir", "-", h)

\* Client::expect_status_response
expect_status_response(resp) ==
    IF resp.kind = "Status" /\ resp.code = "Ok" THEN Ok(Unit)
    ELSE IF resp.kind = "Status" THEN Err(FromServer(resp))
    ELSE Err(UnexpectedResponse(resp))

\* Client::do_stat, after send_receive
do_stat(resp) ==
    IF resp.kind = "Attrs" THEN Ok(resp)
    ELSE IF resp.kind = "Status" THEN Err(FromServer(resp))
    ELSE Err(UnexpectedResponse(resp))

\* names.names of a Name reply, in the order decoded from the wire: the
\* entries are told apart by their position in the reply.
names_of(resp) == [k \in 1..resp.n |-> NameEntry(k)]

\* A pop that takes the first element.
pop_front(names) == names[1]

\* Vec::pop on a non-empty vector: its last element.
pop(names) == names[Len(names)]

\* Client::realpath and Client::readlink, after send_receive:
\* name.names.pop() is the last element of the list.
realpath(resp) ==
    IF resp.kind = "Name"
    THEN IF names_of(resp) # << >> THEN Ok(pop(names_of(resp)))
         ELSE Err(UnexpectedResponse(resp))
    ELSE IF resp.kind = "Status" THEN Err(FromServer(resp))
    ELSE Err(UnexpectedResponse(resp))

\* Client::open, after send_receive
open(resp) ==
    IF resp.kind = "Handle" THEN Ok(FileOf(resp.n))
    ELSE IF resp.kind = "Status" THEN Err(FromServer(resp))
    ELSE Err(UnexpectedResponse(resp))

\* Client::readdir, after send_receive
readdir(resp) ==
    IF resp.kind = "Handle" THEN Ok(ReadDirOf(resp.n))
    ELSE IF resp.kind = "Status" THEN Err(FromServer(resp))
    ELSE Err(UnexpectedResponse(resp))

\* File::stat, after send_receive
File_stat(resp) ==
    IF resp.kind = "Attrs" THEN Ok(resp)
    ELSE Err(UnexpectedResponse(resp))

\* What typed operation `op' returns when its send_receive returned r:
\* try! passes an Err on, an Ok(packet) goes through the operation's match.
TypedResult(op, r) ==
    IF ~r.ok THEN r
    ELSE CASE op \in {"stat", "lstat"}           -> do_stat(r.v)
           [] op \in {"setstat", "mkdir", "rmdir", "rename", "remove",
                      "File.setstat"}            -> expect_status_response(r.v)
           [] op \in {"realpath", "readlink"}    -> realpath(r.v)
           [] op = "open"                        -> open(r.v)
           [] op = "readdir"                     -> readdir(r.v)
           [] op = "File.stat"                   -> File_stat(r.v)

\* ------------------------------------------------------------ state
VARIABLES
    new,         \* Client::new: its position, the frame it read, its result
    w,           \* the write stream: the write calls that reached it, in order
    w_lock,      \* ClientSender.w (Mutex<W>): the caller holding it, 0 if free
    req_id,      \* ClientSender.req_id (AtomicUsize)
    requests,    \* ReceiverState.requests: request id -> tx of a call
    recv_error,  \* ReceiverState.recv_error: None or the terminal cause
    router,      \* the thread running ClientReceiver::recv
    chan,        \* per call, the values sent on its mpsc channel
    caller,      \* per caller thread, its position in send / send_receive
    file,        \* a File: handle, offset, whether it is open
    sum,         \* bytes the File's reads and writes have returned
    dir,         \* a ReadDir: handle, buffered names, what it has yielded
    last         \* the most recent typed call: operation, request, reply, result

coreVars == <<new, w, w_lock, req_id, requests, recv_error, router, chan, caller>>
surfaceVars == <<file, sum, dir, last>>
vars == <<new, w, w_lock, req_id, requests, recv_error, router, chan, caller,
          file, sum, dir, last>>

\* ----------------------------------------------------- write stream
\* One write call on W: which field of a frame it carries, the value, and
\* the call that wrote it (-1 for the INIT of Client::new).
Chunk(f, v, n) == [f |-> f, v |-> v, n |-> n]

\* Vec<u8>::size(): a length-prefixed byte string.
bytes_size(len) == 4 + len

\* The request paths used by the callers are one byte long.
PathLen == 1

\* bytes.len() of the serialized body of the requests the callers send
\* (FxpStat, FxpRmDir: one path).
body_len(op) == bytes_size(PathLen)

\* FxpInit{version: 3, extensions: []}.write_to: one u32.
init_body_len == 4

\* The three write calls of send_init, in order.
send_init_chunks ==
    << Chunk("len", init_body_len + 1, -1),
       Chunk("type", SSH_FXP_INIT, -1),
       Chunk("body", SftpVersion, -1) >>

\* An id allocator that hands every call the same id.
next_id_fixed(counter) == 0

\* ClientSender::next_id: fetch_add(1) as ReqId.
next_id(counter) == (((counter \div Limb) % Limb) * Limb) + (counter % Limb)

\* The four write calls of send, in order, for call n sending `op'.
send_chunks(op, n) ==
    << Chunk("len", body_len(op) + 5, n),
       Chunk("type", msg_type(op), n),
       Chunk("id", next_id(n), n),
       Chunk("body", body_len(op), n) >>

\* ------------------------------------------------------ read stream
\* A response frame on the wire: VERSION carries no request id.
NoId == -1
WireFrame(id, p) == [id |-> id, p |-> p]

\* No frame read yet.
NoFrame == WireFrame(NoId, Packet("None", "-", 0))

\* packets::recv on a well-formed frame: the synthetic id 0 for VERSION.
recv_req_id(fr) == IF fr.p.kind = "Version" THEN 0 ELSE fr.id
recv(fr) == [req_id |-> recv_req_id(fr), packet |-> fr.p]

\* The errors packets::recv returns on a failing, ending or malformed stream.
RecvErrors == {Io, UnexpectedEOF}

\* Frames the peer may send during the handshake and afterwards.
HandshakeFrames ==
    {WireFrame(NoId, Version(v)) : v \in {SftpVersion, SftpVersion + 1}}
    \cup {WireFrame(0, Status("Ok"))}
RouterFrames ==
    {WireFrame(NoId, Version(SftpVersion))}
    \cup {WireFrame(i, p) : i \in 0..(MaxReqs - 1),
                            p \in {Status("NoSuchFile"), Attrs(7)}}

\* ------------------------------------------------------------- init
EmptyMap == [i \in {} |-> 0]

\* The calls dispatched in the runs that open, use and drop a File and a
\* ReadDir: one more than MaxReqs.  A channel is kept for each.
MaxDropReqs == MaxReqs + 1

Idle == [pc |-> "idle", n |-> 0, op |-> "stat", res |-> NoResult]

CoreInit ==
    /\ new = [pc |-> "start", resp |-> NoFrame, res |-> NoResult]
    /\ w = << >>
    /\ w_lock = 0
    /\ req_id = 0
    /\ requests = EmptyMap
    /\ recv_error = None
    /\ router = [pc |-> "none", e |-> None]
    /\ chan = [n \in 0..(MaxDropReqs - 1) |-> << >>]
    /\ caller = [t \in Callers |-> Idle]

\* No ReadDir yet.  `reqs' counts the READDIR requests issued, `served'
\* lists the names the server has returned, `items' what next() returned;
\* `pc' is "requesting" while a call of next() is between two READDIRs.
NoDir == [open |-> FALSE, handle |-> 0, names |-> << >>, pc |-> "idle",
          reqs |-> 0, served |-> << >>, items |-> << >>]

SurfaceIdle ==
    /\ file = [open |-> FALSE, handle |-> 0, offset |-> U64(0)]
    /\ sum = 0
    /\ dir = NoDir
    /\ last = [op |-> "none", offset |-> U64(0), len |-> 0, r |-> NoResult,
               res |-> NoResult]

Init == CoreInit /\ SurfaceIdle

\* ------------------------------------------------------ Client::new
\* A constructor that spawns the router as soon as INIT is written.
NewSendInit_SpawnEarly ==
    /\ new.pc = "start"
    /\ w' = w \o send_init_chunks
    /\ new' = [new EXCEPT !.pc = "sent"]
    /\ router' = [pc |-> "running", e |-> None]
    /\ UNCHANGED <<w_lock, req_id, requests, recv_error, chan, caller, surfaceVars>>

\* s.send_init() succeeds: all three writes reach the stream.
NewSendInit ==
    /\ new.pc = "start"
    /\ w' = w \o send_init_chunks
    /\ new' = [new EXCEPT !.pc = "sent"]
    /\ UNCHANGED <<w_lock, req_id, requests, recv_error, router, chan, caller, surfaceVars>>

\* s.send_init() fails in its (j+1)-th write: try! returns the I/O error
\* from Client::new.
NewSendInitFail ==
    /\ new.pc = "start"
    /\ \E j \in 0..2 : w' = w \o SubSeq(send_init_chunks, 1, j)
    /\ new' = [new EXCEPT !.pc = "failed", !.res = Err(Io)]
    /\ UNCHANGED <<w_lock, req_id, requests, recv_error, router, chan, caller, surfaceVars>>

\* packets::recv(&mut r) fails: try! returns the error from Client::new.
NewRecvFail ==
    /\ new.pc = "sent"
    /\ \E e \in RecvErrors : new' = [new EXCEPT !.pc = "failed", !.res = Err(e)]
    /\ UNCHANGED <<w, w_lock, req_id, requests, recv_error, router, chan, caller, surfaceVars>>

\* A handshake that accepts a VERSION of any version.
version_ok_any(resp) == resp.packet.kind = "Version"

\* Whether Client::new accepts the first response and goes on to spawn
\* the router.
version_ok(resp) == resp.packet.kind = "Version" /\ resp.packet.n = SftpVersion

\* The error Client::new returns for a first response it does not accept.
new_error(resp) ==
    IF resp.packet.kind = "Version"
    THEN MismatchedVersion(resp.packet.n)
    ELSE UnexpectedResponse(resp.packet)

\* packets::recv(&mut r) returns a frame: the match on resp.packet, then
\* thread::spawn of the router and Ok(Client).
NewRecv ==
    /\ new.pc = "sent"
    /\ \E fr \in HandshakeFrames :
          IF version_ok(recv(fr))
          THEN /\ new' = [pc |-> "ready", resp |-> fr, res |-> Ok(Unit)]
               /\ router' = [pc |-> "running", e |-> None]
          ELSE /\ new' = [pc |-> "failed", resp |-> fr,
                          res |-> Err(new_error(recv(fr)))]
               /\ UNCHANGED router
    /\ UNCHANGED <<w, w_lock, req_id, requests, recv_error, chan, caller, surfaceVars>>

\* ------------------------------------------------------- dispatcher
\* The operations the caller threads of Spec issue.
CallerOps == {"stat"}

\* The request id of call n (n is the counter value its next_id fetched).
IdOf(n) == next_id(n)

\* The positions at which a call still owns the Receiver of its channel:
\* from mpsc::channel() until send or send_receive returns.
InCall == {"alloc", "registered", "writing", "wait"}
RxAlive(n) == \E t \in Callers : caller[t].n = n /\ caller[t].pc \in InCall

\* The state mutex is poisoned once the router has panicked holding it.
Poisoned == router.pc = "panicked"

\* send, lines 93-94: next_id() and mpsc::channel().  A Client exists only
\* after Client::new returned Ok.
Begin(t) ==
    /\ new.pc = "ready"
    /\ caller[t].pc \in {"idle", "ret"}
    /\ req_id < MaxReqs
    /\ \E op \in CallerOps :
          caller' = [caller EXCEPT ![t] =
                        [pc |-> "alloc", n |-> req_id, op |-> op, res |-> NoResult]]
    /\ req_id' = req_id + 1
    /\ UNCHANGED <<new, w, w_lock, requests, recv_error, router, chan, surfaceVars>>

\* An insert that loses the entry.
insert_lost(map, id, tx) == map

\* ReqMap::insert
insert(map, id, tx) ==
    [i \in DOMAIN map \cup {id} |-> IF i = id THEN tx ELSE map[i]]

\* A send that registers the call without looking at recv_error.
Register_NoFailFast(t) ==
    /\ caller[t].pc = "alloc"
    /\ IF Poisoned
       THEN /\ caller' = [caller EXCEPT ![t].pc = "panicked"]
            /\ UNCHANGED requests
       ELSE /\ requests' = insert(requests, IdOf(caller[t].n), caller[t].n)
            /\ caller' = [caller EXCEPT ![t].pc = "registered"]
    /\ UNCHANGED <<new, w, w_lock, req_id, recv_error, router, chan, surfaceVars>>

\* send, lines 96-101: under the state lock, fail fast on recv_error or
\* register the call.  lock().unwrap() panics on a poisoned mutex.
RegisterCore(t) ==
    /\ caller[t].pc = "alloc"
    /\ IF Poisoned
       THEN /\ caller' = [caller EXCEPT ![t].pc = "panicked"]
            /\ UNCHANGED requests
       ELSE IF recv_error # None
       THEN /\ caller' = [caller EXCEPT ![t].pc = "ret",
                             ![t].res = Err(ReceiverDisconnected(recv_error))]
            /\ UNCHANGED requests
       ELSE /\ requests' = insert(requests, IdOf(caller[t].n), caller[t].n)
            /\ caller' = [caller EXCEPT ![t].pc = "registered"]
    /\ UNCHANGED <<new, w, w_lock, req_id, recv_error, router, chan>>

\* The same with lock, check, insert and unlock as one step.
Register(t) == RegisterCore(t) /\ UNCHANGED surfaceVars

\* A send that takes the write stream without waiting for its lock.
LockW_NoMutex(t) ==
    /\ caller[t].pc = "registered"
    /\ w_lock' = t
    /\ caller' = [caller EXCEPT ![t].pc = "writing"]
    /\ UNCHANGED <<new, w, req_id, requests, recv_error, router, chan, surfaceVars>>

\* send, lines 102-104: serialize the body, then take the write lock.
LockW(t) ==
    /\ caller[t].pc = "registered"
    /\ w_lock = 0
    /\ w_lock' = t
    /\ caller' = [caller EXCEPT ![t].pc = "writing"]
    /\ UNCHANGED <<new, w, req_id, requests, recv_error, router, chan, surfaceVars>>

\* send, lines 105-110: the four write calls succeed; the guard is
\* dropped and send returns Ok(rx).
Write(t) ==
    /\ caller[t].pc = "writing"
    /\ w_lock = t
    /\ w' = w \o send_chunks(caller[t].op, caller[t].n)
    /\ caller' = [caller EXCEPT ![t].pc = "wait"]
    /\ w_lock' = 0
    /\ UNCHANGED <<new, req_id, requests, recv_error, router, chan, surfaceVars>>

\* send, lines 105-108: the (j+1)-th write call fails; try! returns the
\* I/O error from send and from send_receive, dropping the guard and rx.
\* The entry inserted at line 100 stays in the table.
WriteFail(t) ==
    /\ caller[t].pc = "writing"
    /\ w_lock = t
    /\ \E j \in 0..3 :
          w' = w \o SubSeq(send_chunks(caller[t].op, caller[t].n), 1, j)
    /\ caller' = [caller EXCEPT ![t].pc = "ret", ![t].res = Err(Io)]
    /\ w_lock' = 0
    /\ UNCHANGED <<new, req_id, requests, recv_error, router, chan, surfaceVars>>

\* Whether some tx of call n is still held by the pending table.
TxHeld(n) == \E i \in DOMAIN requests : requests[i] = n

\* send_receive, line 116: rx.recv().unwrap() returns the value sent on
\* the channel; it panics when every tx was dropped without a send.
ReceiveCore(t) ==
    /\ caller[t].pc = "wait"
    /\ chan[caller[t].n] # << >> \/ ~TxHeld(caller[t].n)
    /\ IF chan[caller[t].n] # << >>
       THEN /\ caller' = [caller EXCEPT ![t].pc = "ret",
                                        ![t].res = Head(chan[caller[t].n])]
            /\ chan' = [chan EXCEPT ![caller[t].n] = Tail(@)]
       ELSE /\ caller' = [caller EXCEPT ![t].pc = "panicked"]
            /\ UNCHANGED chan
    /\ UNCHANGED <<new, w, w_lock, req_id, requests, recv_error, router>>

\* send_receive returning to a caller that does nothing more with shared
\* state than map the result.
Receive(t) == ReceiveCore(t) /\ UNCHANGED surfaceVars

\* What the typed operation of caller t returned.
TypedReturn(t) == TypedResult(caller[t].op, caller[t].res)

\* ----------------------------------------------------------- router
\* The value the router sends for a response: Ok(resp.packet).  `rid'
\* records the request id of the frame the packet came from.
Delivered(resp) == [ok |-> TRUE, v |-> resp.packet, rid |-> resp.req_id]

\* A removal that drops every entry of the table.
remove_all(map, id) == EmptyMap

\* ReqMap::remove
remove(map, id) == [i \in DOMAIN map \ {id} |-> map[i]]

\* A router that hands a response to whichever entry it finds first.
lookup_key_any(resp) ==
    IF DOMAIN requests = {} THEN resp.req_id
    ELSE CHOOSE i \in DOMAIN requests : TRUE

\* The key ClientReceiver::recv looks up for a response (line 47).
lookup_key(resp) == resp.req_id

\* tx.send(v) on the channels of the calls in `calls'.
SendAll(calls, v) ==
    [n \in DOMAIN chan |-> IF n \in calls THEN Append(chan[n], v) ELSE chan[n]]

\* recv, lines 46-50: a response whose id is registered.  The entry is
\* removed and Ok(packet) sent; tx.send(..).unwrap() panics, with the
\* state lock held, when the call's Receiver is gone.
RouterDeliverResp(resp) ==
    /\ router.pc = "running"
    /\ LET key == lookup_key(resp)
       IN /\ key \in DOMAIN requests
          /\ requests' = remove(requests, key)
          /\ IF RxAlive(requests[key])
             THEN /\ chan' = SendAll({requests[key]}, Delivered(resp))
                  /\ UNCHANGED router
             ELSE /\ router' = [pc |-> "panicked", e |-> None]
                  /\ UNCHANGED chan
    /\ UNCHANGED <<new, w, w_lock, req_id, recv_error, caller>>

\* The same for the responses decoded from the frames the peer may send.
RouterDeliverOf(frames) ==
    /\ \E fr \in frames : RouterDeliverResp(recv(fr))
    /\ UNCHANGED surfaceVars

RouterDeliver == RouterDeliverOf(RouterFrames)

\* A broadcast that signals every waiter and sets recv_error but leaves
\* the entries in the table.
broadcast_error_keep(e) ==
    /\ chan' = SendAll({requests[i] : i \in {j \in DOMAIN requests : RxAlive(requests[j])}},
                       Err(ReceiverDisconnected(e)))
    /\ requests' = requests
    /\ recv_error' = e
    /\ router' = [pc |-> "exited", e |-> e]

\* ClientReceiver::broadcast_error(state, e).  The loop sends to the
\* entries in the HashMap's iteration order; the first entry whose
\* Receiver is gone makes unwrap() panic, after any subset of the other
\* entries has been served and before the table is cleared and
\* recv_error set.
broadcast_error(e) ==
    LET live == {i \in DOMAIN requests : RxAlive(requests[i])}
        msg  == Err(ReceiverDisconnected(e))
    IN IF live = DOMAIN requests
       THEN /\ chan' = SendAll({requests[i] : i \in live}, msg)
            /\ requests' = EmptyMap
            /\ recv_error' = e
            /\ router' = [pc |-> "exited", e |-> e]
       ELSE /\ \E served \in SUBSET live :
                  chan' = SendAll({requests[i] : i \in served}, msg)
            /\ router' = [pc |-> "panicked", e |-> e]
            /\ UNCHANGED <<requests, recv_error>>

\* recv, line 51: a response whose id is not registered.
RouterNoMatchResp(resp) ==
    /\ router.pc = "running"
    /\ lookup_key(resp) \notin DOMAIN requests
    /\ broadcast_error(NoMatchingRequest(resp.req_id))
    /\ UNCHANGED <<new, w, w_lock, req_id, caller>>

RouterNoMatchOf(frames) ==
    /\ \E fr \in frames : RouterNoMatchResp(recv(fr))
    /\ UNCHANGED surfaceVars

RouterNoMatch == RouterNoMatchOf(RouterFrames)

\* recv, line 43: packets::recv fails (the stream failed, ended, or
\* carried a malformed frame).
RouterRecvErrorOf(e) ==
    /\ router.pc = "running"
    /\ broadcast_error(e)
    /\ UNCHANGED <<new, w, w_lock, req_id, caller>>

RouterRecvError ==
    /\ \E e \in RecvErrors : RouterRecvErrorOf(e)
    /\ UNCHANGED surfaceVars

\* ------------------------------------------------------------- spec
Next ==
    \/ NewSendInit
    \/ NewSendInitFail
    \/ NewRecvFail
    \/ NewRecv
    \/ \E t \in Callers : Begin(t)
    \/ \E t \in Callers : Register(t)
    \/ \E t \in Callers : LockW(t)
    \/ \E t \in Callers : Write(t)
    \/ \E t \in Callers : WriteFail(t)
    \/ \E t \in Callers : Receive(t)
    \/ RouterDeliver
    \/ RouterNoMatch
    \/ RouterRecvError

Spec == Init /\ [][Next]_vars

\* Spec with the scheduler's fairness: a thread that can take the next
\* step of a call under way eventually takes it.
Progress(t) == Register(t) \/ LockW(t) \/ Write(t) \/ WriteFail(t) \/ Receive(t)

FairSpec == Spec /\ \A t \in Callers : WF_vars(Progress(t))

\* ------------------------------------------- File and typed calls
\* What send_receive can return to the typed surface: Ok(packet) for any
\* response variant, or an error of the dispatcher.
ReplyPackets ==
    {Version(SftpVersion), Handle(1), Name(0), Name(2), Attrs(7), Attrs(-1),
     Unknown(200)}
    \cup {Status(c) : c \in FxpStatusCode}
    \cup {Data(d) : d \in 0..(MaxBuf + 1)}

SendReceiveResults ==
    {Ok(p) : p \in ReplyPackets}
    \cup {Err(Io), Err(ReceiverDisconnected(UnexpectedEOF))}

\* io::Result<usize> and io::Error of a given ErrorKind.
Usize(n) == Packet("usize", "-", n)
IoError(kind) == [name |-> "io::Error", kind |-> kind]

\* A conversion that reports every status as ErrorKind::Other.
io_error_from_other(status) == IoError("Other")

\* impl From<FxpStatus> for io::Error
io_error_from(status) ==
    IF status.code = "NoSuchFile" THEN IoError("NotFound")
    ELSE IF status.code = "PermissionDenied" THEN IoError("PermissionDenied")
    ELSE IoError("Other")

Min(a, b) == IF a < b THEN a ELSE b

\* A copy that reports the length of the reply, not of what fitted.
clone_from_slice_all(buf_len, data_len) == data_len

\* clone_from_slice: the number of bytes copied from a Data reply of
\* data_len bytes into a buffer of buf_len bytes.
clone_from_slice(buf_len, data_len) == Min(buf_len, data_len)

\* File::read after send_receive returned r: the value returned and the
\* amount added to self.offset.
read_result(buf_len, r) ==
    IF ~r.ok THEN Err(IoError("Other"))
    ELSE IF r.v.kind = "Data" THEN Ok(Usize(clone_from_slice(buf_len, r.v.n)))
    ELSE IF r.v.kind = "Status" /\ r.v.code = "EOF" THEN Ok(Usize(0))
    ELSE IF r.v.kind = "Status" THEN Err(io_error_from(r.v))
    ELSE Err(IoError("Other"))

\* A read that advances the cursor by the buffer length.
read_advance_buf(buf_len, r) ==
    IF r.ok /\ r.v.kind = "Data" THEN buf_len ELSE 0

read_advance(buf_len, r) ==
    IF r.ok /\ r.v.kind = "Data" THEN clone_from_slice(buf_len, r.v.n) ELSE 0

\* File::write after send_receive returned r.
write_result(buf_len, r) ==
    IF ~r.ok THEN Err(IoError("Other"))
    ELSE IF r.v.kind = "Status" /\ r.v.code = "Ok" THEN Ok(Usize(buf_len))
    ELSE IF r.v.kind = "Status" THEN Err(io_error_from(r.v))
    ELSE Err(IoError("Other"))

write_advance(buf_len, r) ==
    IF r.ok /\ r.v.kind = "Status" /\ r.v.code = "Ok" THEN buf_len ELSE 0

\* The bytes a call reported to its caller.
Returned(res) == IF res.ok THEN res.v.n ELSE 0

Call(op, offset, len, r, res) ==
    [op |-> op, offset |-> offset, len |-> len, r |-> r, res |-> res]

\* Client::open through OpenOptions::open: a Handle reply makes a File
\* with offset 0.
SurfOpen ==
    /\ ~file.open
    /\ \E r \in SendReceiveResults :
          /\ last' = Call("open", 0, 0, r, TypedResult("open", r))
          /\ IF TypedResult("open", r).ok
             THEN /\ file' = [open |-> TRUE, handle |-> r.v.n, offset |-> U64(0)]
                  /\ sum' = 0
             ELSE UNCHANGED <<file, sum>>
    /\ UNCHANGED <<dir, coreVars>>

\* The other typed operations of Client.
SurfClientCall ==
    /\ \E op \in ClientOps \ {"open"}, r \in SendReceiveResults :
          last' = Call(op, 0, 0, r, TypedResult(op, r))
    /\ UNCHANGED <<file, sum, dir, coreVars>>

\* File::stat and File::setstat.
SurfFileCall ==
    /\ file.open
    /\ \E op \in FileOps, r \in SendReceiveResults :
          last' = Call(op, 0, 0, r, TypedResult(op, r))
    /\ UNCHANGED <<file, sum, dir, coreVars>>

\* impl io::Read for File: READ{handle, offset: self.offset, len: buf.len()}.
FileRead ==
    /\ file.open
    /\ \E k \in 0..(MaxOffset - 1) : file.offset = U64(k)
    /\ \E buf_len \in 0..MaxBuf, r \in SendReceiveResults :
          /\ last' = Call("read", file.offset, buf_len, r, read_result(buf_len, r))
          /\ file' = [file EXCEPT !.offset = wrapping_add(@, U64(read_advance(buf_len, r)))]
          /\ sum' = sum + Returned(read_result(buf_len, r))
    /\ UNCHANGED <<dir, coreVars>>

\* impl io::Write for File: WRITE{handle, offset: self.offset, data: buf}.
FileWrite ==
    /\ file.open
    /\ \E k \in 0..(MaxOffset - 1) : file.offset = U64(k)
    /\ \E buf_len \in 0..MaxBuf, r \in SendReceiveResults :
          /\ last' = Call("write", file.offset, buf_len, r, write_result(buf_len, r))
          /\ file' = [file EXCEPT !.offset = wrapping_add(@, U64(write_advance(buf_len, r)))]
          /\ sum' = sum + Returned(write_result(buf_len, r))
    /\ UNCHANGED <<dir, coreVars>>

SurfaceNext ==
    \/ SurfOpen
    \/ SurfClientCall
    \/ SurfFileCall
    \/ FileRead
    \/ FileWrite

SurfaceSpec == Init /\ [][SurfaceNext]_vars

\* ------------------------------------------------------- File::seek
\* The extreme 64-bit words: u64::MAX (also -1 as i64), i64::MAX, and the
\* word with only the sign bit set (2^63 as u64, i64::MIN as i64).
U64_MAX == [j \in 1..U64Limbs |-> Limb - 1]
I64_MAX == [j \in 1..U64Limbs |-> IF j = U64Limbs THEN (Limb \div 2) - 1 ELSE Limb - 1]
I64_MIN == [j \in 1..U64Limbs |-> IF j = U64Limbs THEN Limb \div 2 ELSE 0]

\* The i64 -k, for a small k >= 1.
MinusI64(k) == [j \in 1..U64Limbs |-> IF j = 1 THEN Limb - k ELSE Limb - 1]

\* The cursor values, sizes and seek distances explored.
SeekOffsets == {U64(k) : k \in 0..MaxBuf} \cup {I64_MAX, I64_MIN, U64_MAX}
SeekDistances ==
    {U64(k) : k \in 0..MaxBuf} \cup {MinusI64(k) : k \in 1..MaxBuf}
    \cup {I64_MAX, I64_MIN}

\* `x as i64' and `x as u64': the same limbs, read the other way.
as_i64(x) == x
as_u64(x) == x

\* An Attrs reply whose size field is the u64 `size'.
AttrsSized(size) == Packet("Attrs", "size", size)

\* What send_receive can return to the FSTAT of seek(End(i)): an Attrs
\* with a size, or a reply or error that gives none.
SeekSizedResults == {Ok(AttrsSized(sz)) : sz \in SeekOffsets}
SeekUnsizedResults == {Ok(Attrs(-1)), Ok(Status("Failure")), Ok(Handle(1)), Err(Io)}

\* Arithmetic overflow panics in a build with overflow checks (debug) and
\* wraps in one without (release).
Builds == {"debug", "release"}

\* io::SeekFrom
SeekFrom(whence, i) == [whence |-> whence, i |-> i]

\* The u64 a successful seek returns; a call that panicked returns nothing.
Offset64(x) == Packet("u64", "-", x)
Panicked == Err([name |-> "panic"])

\* The outcome of a seek: what it returns and the cursor it leaves.
SeekOutcome(res, offset) == [res |-> res, offset |-> offset]
SeekTo(x) == SeekOutcome(Ok(Offset64(x)), x)

\* seek(SeekFrom::Current(i)) with the cursor at `offset'.
seek_current(build, offset, i) ==
    LET soffset == as_i64(offset)
        total   == wrapping_add(soffset, i)
    IN IF build = "debug" /\ overflows_signed(soffset, i)
       THEN SeekOutcome(Panicked, offset)
       ELSE IF is_negative(total)
       THEN SeekOutcome(Err(IoError("InvalidInput")), offset)
       ELSE SeekTo(as_u64(total))

\* seek(SeekFrom::End(i)), the FSTAT of self.stat() having returned r.
seek_end(build, offset, i, r) ==
    LET st == TypedResult("File.stat", r)
    IN IF ~st.ok THEN SeekOutcome(Err(IoError("Other")), offset)
       ELSE IF st.v.code = "nosize" THEN SeekOutcome(Err(IoError("Other")), offset)
       ELSE LET size == st.v.n
            IN IF build = "debug" /\ overflows_signed(as_i64(size), i)
               THEN SeekOutcome(Panicked, offset)
               ELSE IF is_negative(wrapping_add(as_i64(size), i))
               THEN SeekOutcome(Err(IoError("InvalidInput")), offset)
               ELSE IF build = "debug" /\ overflows_unsigned(size, as_u64(i))
               THEN SeekOutcome(Panicked, offset)
               ELSE SeekTo(wrapping_add(size, as_u64(i)))

\* The record of a seek in `last'.
SeekCall(pos, offset, r, out) ==
    [op |-> "seek", offset |-> offset, len |-> 0, r |-> r, res |-> out.res,
     pos |-> pos]

\* seek(SeekFrom::Start(i))
FileSeekStart ==
    /\ file.open
    /\ \E i \in SeekOffsets :
          /\ last' = SeekCall(SeekFrom("Start", i), file.offset, NoResult, SeekTo(i))
          /\ file' = [file EXCEPT !.offset = i]
    /\ UNCHANGED <<sum, dir, coreVars>>

\* seek(SeekFrom::Current(i)), from one of the cursor values explored.
FileSeekCurrent ==
    /\ file.open
    /\ file.offset \in SeekOffsets
    /\ \E i \in SeekDistances, build \in Builds :
          LET out == seek_current(build, file.offset, i)
          IN /\ last' = SeekCall(SeekFrom("Current", i), file.offset, NoResult, out)
             /\ file' = [file EXCEPT !.offset = out.offset]
    /\ UNCHANGED <<sum, dir, coreVars>>

\* seek(SeekFrom::End(i))
FileSeekEnd ==
    /\ file.open
    /\ file.offset \in SeekOffsets
    /\ \E i \in SeekDistances, build \in Builds :
          LET Seek(r) ==
                 LET out == seek_end(build, file.offset, i, r)
                 IN /\ last' = SeekCall(SeekFrom("End", i), file.offset, r, out)
                    /\ file' = [file EXCEPT !.offset = out.offset]
          IN \/ \E r \in SeekSizedResults : Seek(r)
             \/ \E r \in SeekUnsizedResults : Seek(r)
    /\ UNCHANGED <<sum, dir, coreVars>>

SeekNext ==
    \/ SurfOpen
    \/ FileSeekStart
    \/ FileSeekCurrent
    \/ FileSeekEnd

SeekSpec == Init /\ [][SeekNext]_vars

\* ---------------------------------------------------------- ReadDir
\* The READDIR requests one ReadDir issues in the runs explored.
MaxReadDirs == 3

\* An iterator that takes the last buffered name first.
iter_next_back(names) ==
    [item |-> names[Len(names)], rest |-> SubSeq(names, 1, Len(names) - 1)]

\* vec::IntoIter::next on a non-empty buffer.
iter_next(names) == [item |-> Head(names), rest |-> Tail(names)]

\* Iterator::next returning None.
End == [ok |-> FALSE, e |-> [name |-> "End"]]

\* Client::readdir: a Handle reply makes a ReadDir with an empty buffer.
ReadDirOpen ==
    /\ ~dir.open
    /\ \E r \in SendReceiveResults :
          /\ last' = Call("readdir", 0, 0, r, TypedResult("readdir", r))
          /\ IF TypedResult("readdir", r).ok
             THEN dir' = [NoDir EXCEPT !.open = TRUE, !.handle = r.v.n]
             ELSE UNCHANGED dir
    /\ UNCHANGED <<file, sum, coreVars>>

\* ReadDir::next with a name in the buffer: no request.
ReadDirNextBuffered ==
    /\ dir.open /\ dir.pc = "idle"
    /\ dir.names # << >>
    /\ dir' = [dir EXCEPT !.names = iter_next(dir.names).rest,
                          !.items = Append(@, Ok(iter_next(dir.names).item))]
    /\ last' = Call("next", 0, 0, NoResult, Ok(iter_next(dir.names).item))
    /\ UNCHANGED <<file, sum, coreVars>>

\* ReadDir::next with an empty buffer: one READDIR and its reply.  A Name
\* reply refills the buffer and next() calls itself: it returns the first
\* name, or issues another READDIR when the reply held none.
ReadDirNextRequest ==
    /\ dir.open
    /\ dir.names = << >>
    /\ dir.reqs < MaxReadDirs
    /\ \E r \in SendReceiveResults :
          LET ret(item) == [dir EXCEPT !.pc = "idle", !.reqs = @ + 1,
                                       !.items = Append(@, item)]
          IN IF ~r.ok
             THEN /\ dir' = ret(r)
                  /\ last' = Call("next", 0, 0, r, r)
             ELSE IF r.v.kind = "Status" /\ r.v.code = "EOF"
             THEN /\ dir' = ret(End)
                  /\ last' = Call("next", 0, 0, r, End)
             ELSE IF r.v.kind = "Name"
             THEN IF names_of(r.v) = << >>
                  THEN /\ dir' = [dir EXCEPT !.pc = "requesting", !.reqs = @ + 1]
                       /\ last' = Call("next", 0, 0, r, NoResult)
                  ELSE /\ dir' = [ret(Ok(iter_next(names_of(r.v)).item)) EXCEPT
                                     !.names = iter_next(names_of(r.v)).rest,
                                     !.served = @ \o [k \in 1..r.v.n |-> NameEntry(k)]]
                       /\ last' = Call("next", 0, 0, r,
                                       Ok(iter_next(names_of(r.v)).item))
             ELSE /\ dir' = ret(Err(UnexpectedResponse(r.v)))
                  /\ last' = Call("next", 0, 0, r, Err(UnexpectedResponse(r.v)))
    /\ UNCHANGED <<file, sum, coreVars>>

ReadDirNext ==
    \/ ReadDirOpen
    \/ ReadDirNextBuffered
    \/ ReadDirNextRequest

ReadDirSpec == Init /\ [][ReadDirNext]_vars

\* ------------------------------------- dropping a File or a ReadDir
\* The calls made on a File and on a ReadDir through the dispatcher; their
\* drop is a send_receive of CLOSE whose result is discarded.
FileObjOps == {"File.stat", "File.drop"}
DirObjOps  == {"ReadDir.next", "ReadDir.drop"}
DropOps    == {"File.drop", "ReadDir.drop"}

\* Replies of the peer to these calls.
DropFrames ==
    {WireFrame(i, p) : i \in 0..(MaxDropReqs - 1),
                       p \in {Handle(1), Handle(2), Status("Ok")}}

\* The thread that owns the Client, the File and the ReadDir in these
\* runs; the router is the only other thread at work.
Owner == CHOOSE t \in Callers : TRUE

\* The requests of Client::open and Client::readdir carry a path and no
\* handle.
NoHandle == 0

\* send, lines 93-94, for a call of `op' by thread t whose request carries
\* the handle h.
BeginCall(t, op, h) ==
    /\ new.pc = "ready"
    /\ t = Owner
    /\ caller[t].pc \in {"idle", "ret"}
    /\ req_id < MaxDropReqs
    /\ caller' = [caller EXCEPT ![t] =
                     [pc |-> "alloc", n |-> req_id, op |-> op, res |-> NoResult,
                      h |-> h]]
    /\ req_id' = req_id + 1
    /\ UNCHANGED <<new, w, w_lock, requests, recv_error, router, chan>>

\* Some call among `ops' is under way: methods taking &mut self on one
\* object do not overlap.
Busy(ops) == \E t \in Callers : caller[t].pc \in InCall /\ caller[t].op \in ops

\* Client::open and Client::readdir start their send_receive.  The runs
\* explored hold one File or one ReadDir at a time.
ClientOpen(t) ==
    /\ ~file.open /\ ~dir.open /\ ~Busy({"open", "readdir"})
    /\ BeginCall(t, "open", NoHandle)
    /\ UNCHANGED surfaceVars

ClientReaddir(t) ==
    /\ ~file.open /\ ~dir.open /\ ~Busy({"open", "readdir"})
    /\ BeginCall(t, "readdir", NoHandle)
    /\ UNCHANGED surfaceVars

\* File::stat and ReadDir::next (with an empty buffer) start theirs.
FileCall(t) ==
    /\ file.open /\ ~Busy(FileObjOps)
    /\ BeginCall(t, "File.stat", file.handle)
    /\ UNCHANGED surfaceVars

DirCall(t) ==
    /\ dir.open /\ ~Busy(DirObjOps)
    /\ BeginCall(t, "ReadDir.next", dir.handle)
    /\ UNCHANGED surfaceVars

\* A drop that lets the File go without a CLOSE.
FileDrop_NoClose(t) ==
    /\ file.open /\ ~Busy(FileObjOps)
    /\ t = Owner
    /\ caller[t].pc \in {"idle", "ret"}
    /\ file' = [file EXCEPT !.open = FALSE]
    /\ UNCHANGED <<coreVars, sum, dir, last>>

\* Drop for File: the File is gone and drop starts send_receive(CLOSE).
FileDrop(t) ==
    /\ file.open /\ ~Busy(FileObjOps)
    /\ BeginCall(t, "File.drop", file.handle)
    /\ file' = [file EXCEPT !.open = FALSE]
    /\ UNCHANGED <<sum, dir, last>>

\* Drop for ReadDir.
DirDrop(t) ==
    /\ dir.open /\ ~Busy(DirObjOps)
    /\ BeginCall(t, "ReadDir.drop", dir.handle)
    /\ dir' = [dir EXCEPT !.open = FALSE]
    /\ UNCHANGED <<file, sum, last>>

\* send_receive returns to the typed operation: open and readdir build
\* the File or ReadDir from a Handle reply; drop discards the result.
DropReceive(t) ==
    /\ ReceiveCore(t)
    /\ LET typed == TypedResult(caller[t].op, caller'[t].res)
       IN IF caller'[t].pc = "ret" /\ caller[t].op = "open" /\ typed.ok
          THEN /\ file' = [open |-> TRUE, handle |-> typed.v.n, offset |-> U64(0)]
               /\ UNCHANGED <<sum, dir, last>>
          ELSE IF caller'[t].pc = "ret" /\ caller[t].op = "readdir" /\ typed.ok
          THEN /\ dir' = [NoDir EXCEPT !.open = TRUE, !.handle = typed.v.n]
               /\ UNCHANGED <<file, sum, last>>
          ELSE UNCHANGED surfaceVars

DropRouterDeliver == RouterDeliverOf(DropFrames)
DropRouterNoMatch == RouterNoMatchOf(DropFrames)

DropNext ==
    \/ NewSendInit
    \/ NewRecv
    \/ \E t \in Callers : ClientOpen(t)
    \/ \E t \in Callers : ClientReaddir(t)
    \/ \E t \in Callers : FileCall(t)
    \/ \E t \in Callers : DirCall(t)
    \/ \E t \in Callers : FileDrop(t)
    \/ \E t \in Callers : DirDrop(t)
    \/ \E t \in Callers : Register(t)
    \/ \E t \in Callers : LockW(t)
    \/ \E t \in Callers : Write(t)
    \/ \E t \in Callers : WriteFail(t)
    \/ \E t \in Callers : DropReceive(t)
    \/ DropRouterDeliver
    \/ DropRouterNoMatch
    \/ RouterRecvError

DropSpec == Init /\ [][DropNext]_vars

\* ------------------------------------------------- FileAttr on the wire
\* The bytes of a stream are u8 values; a u32 is held as two 16-bit limbs,
\* least significant first, like a u64 in four.
Byte == 256
U32Limbs == 2
U32(n) == [j \in 1..U32Limbs |-> IF j = 1 THEN n ELSE 0]

\* Option<T>: None is the record defined with the errors above.
Some(x) == [name |-> "Some", x |-> x]
is_some(o) == o.name = "Some"

\* | and & on one limb.
RECURSIVE BitOr(_, _)
BitOr(x, y) ==
    IF x = 0 THEN y
    ELSE IF y = 0 THEN x
    ELSE (IF x % 2 = 1 \/ y % 2 = 1 THEN 1 ELSE 0) + 2 * BitOr(x \div 2, y \div 2)

RECURSIVE BitAnd(_, _)
BitAnd(x, y) ==
    IF x = 0 \/ y = 0 THEN 0
    ELSE (IF x % 2 = 1 /\ y % 2 = 1 THEN 1 ELSE 0) + 2 * BitAnd(x \div 2, y \div 2)

\* flags | mask and flags & mask on u32 words.
bitor(a, b)  == [j \in DOMAIN a |-> BitOr(a[j], b[j])]
bitand(a, b) == [j \in DOMAIN a |-> BitAnd(a[j], b[j])]

SSH_FILEXFER_ATTR_SIZE        == U32(1)
SSH_FILEXFER_ATTR_UIDGID      == U32(2)
SSH_FILEXFER_ATTR_PERMISSIONS == U32(4)
SSH_FILEXFER_ATTR_ACMODTIME   == U32(8)
SSH_FILEXFER_ATTR_EXTENDED    == <<0, Limb \div 2>>

\* write_u32::<BigEndian> and write_u64::<BigEndian>: the bytes of a word,
\* most significant first.
limb_bytes(l) == <<l \div Byte, l % Byte>>

RECURSIVE be_bytes(_)
be_bytes(x) ==
    IF Len(x) = 0 THEN << >> ELSE be_bytes(Tail(x)) \o limb_bytes(Head(x))

\* The result of a successful read: the value and the bytes left unread.
Read(v, rest) == [ok |-> TRUE, v |-> v, rest |-> rest]

\* read_u32::<BigEndian> and read_u64::<BigEndian>: byteorder's
\* UnexpectedEOF, which try! turns into Error::UnexpectedEOF, when the
\* stream ends inside the word.
read_be(s, limbs) ==
    IF Len(s) < 2 * limbs THEN Err(UnexpectedEOF)
    ELSE Read([j \in 1..limbs |->
                  s[2 * (limbs - j) + 1] * Byte + s[2 * (limbs - j) + 2]],
              SubSeq(s, 2 * limbs + 1, Len(s)))

u32_recv(s) == read_be(s, U32Limbs)
u64_recv(s) == read_be(s, U64Limbs)

\* Sendable for Vec<u8>: the length, then the bytes.
vec_write_to(v) == be_bytes(U32(Len(v))) \o v

\* A reader that ignores the limit and reads all there is.
take_all(l, avail) == avail

\* r.take(l).read_to_end(): the bytes read for a length word l when
\* `avail' bytes are left in the stream.
take(l, avail) == IF l[2] > 0 THEN avail ELSE Min(l[1], avail)

\* Receivable for Vec<u8>: a short read is built into an error that is
\* never returned.
vec_recv(s) ==
    LET l == u32_recv(s)
    IN IF ~l.ok THEN l
       ELSE LET n == take(l.v, Len(l.rest))
            IN Read(SubSeq(l.rest, 1, n), SubSeq(l.rest, n + 1, Len(l.rest)))

\* Sendable for Option<T>, T one of u32 and u64.
opt_write_to(o) == IF is_some(o) THEN be_bytes(o.x) ELSE << >>

\* Receivable for Option<T>: Ok(Some(try!(T::recv(r)))), r the result of
\* T::recv.
opt_recv(r) == IF r.ok THEN Read(Some(r.v), r.rest) ELSE r

\* Extension and its Sendable / Receivable.
Extension(name, data) == [name |-> name, data |-> data]

extension_write_to(e) == vec_write_to(e.name) \o vec_write_to(e.data)

extension_recv(s) ==
    LET name == vec_recv(s)
    IN IF ~name.ok THEN name
       ELSE LET data == vec_recv(name.rest)
            IN IF ~data.ok THEN data
               ELSE Read(Extension(name.v, data.v), data.rest)

\* for extension in self.extensions.iter() { extension.write_to(w) }
RECURSIVE extensions_write_to(_)
extensions_write_to(es) ==
    IF Len(es) = 0 THEN << >>
    ELSE extension_write_to(Head(es)) \o extensions_write_to(Tail(es))

\* for _ in 0..ext_count { extensions.push(Extension::recv(r)) }
RECURSIVE recv_extensions(_, _, _)
recv_extensions(count, s, extensions) ==
    IF count = 0 THEN Read(extensions, s)
    ELSE LET e == extension_recv(s)
         IN IF ~e.ok THEN e
            ELSE recv_extensions(count - 1, e.rest, Append(extensions, e.v))

\* The number of turns of that loop: a count beyond 16 bits outruns any
\* stream explored, as Limb turns do.
loop_turns(ext_count) == IF ext_count[2] > 0 THEN Limb ELSE ext_count[1]

\* FileAttr and FileAttr::new.
FileAttr(size, uid, gid, perms, atime, mtime, extensions) ==
    [size |-> size, uid |-> uid, gid |-> gid, perms |-> perms,
     atime |-> atime, mtime |-> mtime, extensions |-> extensions]

FileAttr_new == FileAttr(None, None, None, None, None, None, << >>)

\* A flag computation that sets the uid/gid and time bits as soon as one
\* field of the pair is present.
flags_of_any(a) ==
    LET f1 == IF is_some(a.size)
              THEN bitor(U32(0), SSH_FILEXFER_ATTR_SIZE) ELSE U32(0)
        f2 == IF is_some(a.uid) \/ is_some(a.gid)
              THEN bitor(f1, SSH_FILEXFER_ATTR_UIDGID) ELSE f1
        f3 == IF is_some(a.perms)
              THEN bitor(f2, SSH_FILEXFER_ATTR_PERMISSIONS) ELSE f2
        f4 == IF is_some(a.atime) \/ is_some(a.mtime)
              THEN bitor(f3, SSH_FILEXFER_ATTR_ACMODTIME) ELSE f3
    IN IF Len(a.extensions) > 0
       THEN bitor(f4, SSH_FILEXFER_ATTR_EXTENDED) ELSE f4

\* FileAttr::write_to, lines 237-252: the flag word.
flags_of(a) ==
    LET f1 == IF is_some(a.size)
              THEN bitor(U32(0), SSH_FILEXFER_ATTR_SIZE) ELSE U32(0)
        f2 == IF is_some(a.uid) /\ is_some(a.gid)
              THEN bitor(f1, SSH_FILEXFER_ATTR_UIDGID) ELSE f1
        f3 == IF is_some(a.perms)
              THEN bitor(f2, SSH_FILEXFER_ATTR_PERMISSIONS) ELSE f2
        f4 == IF is_some(a.atime) /\ is_some(a.mtime)
              THEN bitor(f3, SSH_FILEXFER_ATTR_ACMODTIME) ELSE f3
    IN IF Len(a.extensions) > 0
       THEN bitor(f4, SSH_FILEXFER_ATTR_EXTENDED) ELSE f4

\* FileAttr::write_to, lines 253-262: the writes, in order.
FileAttr_write_to(a) ==
    be_bytes(flags_of(a))
        \o opt_write_to(a.size)
        \o opt_write_to(a.uid)
        \o opt_write_to(a.gid)
        \o opt_write_to(a.atime)
        \o opt_write_to(a.mtime)
        \o extensions_write_to(a.extensions)

\* FileAttr::recv, line 273: the flag word, with the FileAttr the fields
\* read after it are stored into.
flags_recv(s) ==
    LET flags == u32_recv(s)
    IN IF ~flags.ok THEN flags
       ELSE Read([flags |-> flags.v, attr |-> FileAttr_new], flags.rest)

\* One optional field f of FileAttr::recv, a word of `limbs' limbs: read
\* when the bit `mask' of the flag word is set, None otherwise; try!
\* passes an earlier error on.
field_recv(acc, f, mask, limbs) ==
    IF ~acc.ok THEN acc
    ELSE LET x == IF bitand(acc.v.flags, mask) # U32(0)
                  THEN opt_recv(read_be(acc.rest, limbs))
                  ELSE Read(None, acc.rest)
         IN IF ~x.ok THEN x
            ELSE Read([acc.v EXCEPT !.attr[f] = x.v], x.rest)

\* Lines 294-304: the extensions read are stored and the FileAttr returned.
attr_extensions(attr, extensions) ==
    IF ~extensions.ok THEN extensions
    ELSE Read([attr EXCEPT !.extensions = extensions.v], extensions.rest)

\* Lines 294-300: the extension count, read when EXTENDED is flagged.
extended_recv(acc) ==
    IF ~acc.ok THEN acc
    ELSE LET ext_count ==
                 IF bitand(acc.v.flags, SSH_FILEXFER_ATTR_EXTENDED) # U32(0)
                 THEN u32_recv(acc.rest)
                 ELSE Read(U32(0), acc.rest)
         IN IF ~ext_count.ok THEN ext_count
            ELSE attr_extensions(acc.v.attr,
                     recv_extensions(loop_turns(ext_count.v), ext_count.rest, << >>))

\* FileAttr::recv, lines 272-305: flags, size, uid, gid, perms, atime,
\* mtime, extensions, in this order.
FileAttr_recv(s) ==
    extended_recv(
      field_recv(
        field_recv(
          field_recv(
            field_recv(
              field_recv(
                field_recv(flags_recv(s),
                           "size", SSH_FILEXFER_ATTR_SIZE, U64Limbs),
                "uid", SSH_FILEXFER_ATTR_UIDGID, U32Limbs),
              "gid", SSH_FILEXFER_ATTR_UIDGID, U32Limbs),
            "perms", SSH_FILEXFER_ATTR_PERMISSIONS, U32Limbs),
          "atime", SSH_FILEXFER_ATTR_ACMODTIME, U32Limbs),
        "mtime", SSH_FILEXFER_ATTR_ACMODTIME, U32Limbs))

\* The FileAttr values explored: each u32 field absent or one of MaxAttr
\* values, the size absent or one of two u64 values, and up to MaxExts
\* extensions.
MaxAttr == 2
MaxExts == 2
AttrValues == {None} \cup {Some(U32(k)) : k \in 1..MaxAttr}
SizeValues == {None, Some(U64(1)), Some(<<Byte + 2, 0, 0, 1>>)}
ExtensionValues == {Extension(<<1>>, << >>), Extension(<<2>>, <<3>>)}
ExtensionLists ==
    UNION {[1..n -> ExtensionValues] : n \in 0..MaxExts}
FileAttrs ==
    {FileAttr(size, uid, gid, perms, atime, mtime, extensions) :
        size \in SizeValues, uid \in AttrValues, gid \in AttrValues,
        perms \in AttrValues, atime \in AttrValues, mtime \in AttrValues,
        extensions \in ExtensionLists}

\* A FileAttr is serialized; each run serializes one value.
FileAttrWrite ==
    /\ last.op = "none"
    /\ \E a \in FileAttrs :
          last' = [op |-> "FileAttr.write_to", attr |-> a,
                   bytes |-> FileAttr_write_to(a)]
    /\ UNCHANGED <<coreVars, file, sum, dir>>

\* The bytes just serialized are parsed back.
FileAttrRecv ==
    /\ last.op = "FileAttr.write_to"
    /\ last' = [op |-> "FileAttr.recv", attr |-> last.attr,
                bytes |-> last.bytes, res |-> FileAttr_recv(last.bytes)]
    /\ UNCHANGED <<coreVars, file, sum, dir>>

CodecNext == FileAttrWrite \/ FileAttrRecv

CodecSpec == Init /\ [][CodecNext]_vars

\* ------------------------------------------- response frames in bytes
\* Receivable for u8: UnexpectedEOF when read() returns no byte.
u8_recv(s) == IF Len(s) < 1 THEN Err(UnexpectedEOF) ELSE Read(s[1], Tail(s))

\* String::from_utf8 accepts exactly the well-formed UTF-8 byte strings.
RECURSIVE utf8_valid(_)
utf8_valid(s) ==
    IF Len(s) = 0 THEN TRUE
    ELSE LET b == s[1]
             cont(i) == i <= Len(s) /\ s[i] >= 128 /\ s[i] <= 191
             after(n) == utf8_valid(SubSeq(s, n + 1, Len(s)))
         IN IF b < 128 THEN after(1)
            ELSE IF b >= 194 /\ b <= 223 THEN cont(2) /\ after(2)
            ELSE IF b >= 224 /\ b <= 239
            THEN /\ cont(2) /\ cont(3)
                 /\ b = 224 => s[2] >= 160
                 /\ b = 237 => s[2] <= 159
                 /\ after(3)
            ELSE IF b >= 240 /\ b <= 244
            THEN /\ cont(2) /\ cont(3) /\ cont(4)
                 /\ b = 240 => s[2] >= 144
                 /\ b = 244 => s[2] <= 143
                 /\ after(4)
            ELSE FALSE

\* FxpStatus::recv, lines 739-754: the code for SSH_FX_OK = 0 up to
\* SSH_FX_OP_UNSUPPORTED = 8, UnknownCode for every other word.
StatusCodeNames ==
    <<"Ok", "EOF", "NoSuchFile", "PermissionDenied", "Failure",
      "BadMessage", "NoConnection", "ConnectionLost", "OpUnsupported">>

status_code(icode) ==
    IF icode[2] = 0 /\ icode[1] < Len(StatusCodeNames)
    THEN StatusCodeNames[icode[1] + 1]
    ELSE "UnknownCode"

\* FxpStatus; `data' is the payload of an UnknownCode.
FxpStatus(code, data, msg) == [code |-> code, data |-> data, msg |-> msg]

\* FxpStatus::recv: code, message, language tag; an unknown code swallows
\* the rest of the frame; the message must be UTF-8.
FxpStatus_recv(r) ==
    LET icode == u32_recv(r)
        msg   == IF icode.ok THEN vec_recv(icode.rest) ELSE icode
        lang  == IF msg.ok THEN vec_recv(msg.rest) ELSE msg
    IN IF ~lang.ok THEN lang
       ELSE LET code == status_code(icode.v)
                known == code # "UnknownCode"
            IN IF ~utf8_valid(msg.v) THEN Err(Utf8)
               ELSE Read(FxpStatus(code, IF known THEN << >> ELSE lang.rest, msg.v),
                         IF known THEN lang.rest ELSE << >>)

\* while er.position() < limit { extensions.push(Extension::recv(&mut er)) }
RECURSIVE version_extensions(_, _)
version_extensions(s, extensions) ==
    IF Len(s) = 0 THEN Read(extensions, << >>)
    ELSE LET e == extension_recv(s)
         IN IF ~e.ok THEN e
            ELSE version_extensions(e.rest, Append(extensions, e.v))

\* FxpVersion and FxpVersion::recv.
FxpVersion(version, extensions) == [version |-> version, extensions |-> extensions]

FxpVersion_recv(r) ==
    LET version == u32_recv(r)
    IN IF ~version.ok THEN version
       ELSE LET extensions == version_extensions(version.rest, << >>)
            IN IF ~extensions.ok THEN extensions
               ELSE Read(FxpVersion(version.v, extensions.v), << >>)

\* FxpHandle, FxpData and their recv.
FxpHandle(handle) == [handle |-> handle]
FxpData(data) == [data |-> data]

FxpHandle_recv(r) ==
    LET handle == vec_recv(r)
    IN IF ~handle.ok THEN handle ELSE Read(FxpHandle(handle.v), handle.rest)

FxpData_recv(r) ==
    LET data == vec_recv(r)
    IN IF ~data.ok THEN data ELSE Read(FxpData(data.v), data.rest)

\* struct Name and Name::recv.
NameOf(filename, longname, attrs) ==
    [filename |-> filename, longname |-> longname, attrs |-> attrs]

\* Name::recv, lines 823-827: filename, longname, attrs.
Name_attrs(filename, longname, attrs) ==
    IF ~attrs.ok THEN attrs
    ELSE Read(NameOf(filename, longname, attrs.v), attrs.rest)

Name_longname(filename, longname) ==
    IF ~longname.ok THEN longname
    ELSE Name_attrs(filename, longname.v, FileAttr_recv(longname.rest))

Name_filename(filename) ==
    IF ~filename.ok THEN filename
    ELSE Name_longname(filename.v, vec_recv(filename.rest))

Name_recv(r) == Name_filename(vec_recv(r))

\* FxpName and FxpName::recv.
FxpName(names) == [names |-> names]

\* for _ in 0..count { names.push(Name::recv(r)) }
RECURSIVE recv_names(_, _, _)
names_push(count, names, name) ==
    IF ~name.ok THEN name
    ELSE recv_names(count - 1, name.rest, Append(names, name.v))

recv_names(count, s, names) ==
    IF count = 0 THEN Read(FxpName(names), s)
    ELSE names_push(count, names, Name_recv(s))

FxpName_recv(r) ==
    LET count == u32_recv(r)
    IN IF ~count.ok THEN count
       ELSE recv_names(loop_turns(count.v), count.rest, << >>)

\* An Unknown that keeps the type byte and drops the payload.
UnknownOf_NoData(type, data) ==
    Packet("Unknown", "-", [msg_type |-> type, data |-> << >>])

\* SftpResponsePacket::Unknown{msg_type, data}.
UnknownOf(type, data) == Packet("Unknown", "-", [msg_type |-> type, data |-> data])

\* packets::recv, lines 861-877: the variant decoded for a type byte from
\* the bytes lr still gives.
wrap(kind, r) == IF r.ok THEN Read(Packet(kind, "-", r.v), r.rest) ELSE r

wrap_status(status) ==
    IF status.ok
    THEN Read(Packet("Status", status.v.code, status.v), status.rest)
    ELSE status

recv_packet(type, lr) ==
    IF type = SSH_FXP_VERSION THEN wrap("Version", FxpVersion_recv(lr))
    ELSE IF type = SSH_FXP_STATUS THEN wrap_status(FxpStatus_recv(lr))
    ELSE IF type = SSH_FXP_HANDLE THEN wrap("Handle", FxpHandle_recv(lr))
    ELSE IF type = SSH_FXP_DATA THEN wrap("Data", FxpData_recv(lr))
    ELSE IF type = SSH_FXP_NAME THEN wrap("Name", FxpName_recv(lr))
    ELSE IF type = SSH_FXP_ATTRS THEN wrap("Attrs", FileAttr_recv(lr))
    ELSE Read(UnknownOf(type, lr), << >>)

\* A u32 request id as the key of the pending table.
ReqIdOf(x) == x[2] * Limb + x[1]

\* lr.limit() > 0 after `consumed' bytes of a frame of declared length l.
limit_left(l, consumed) == l[2] > 0 \/ l[1] > consumed

\* packets::recv, lines 878-881: bytes of the frame left unread are an
\* error; `read' bytes of the frame were given to the reader.
frame_end(l, read, id, response) ==
    IF ~response.ok THEN response
    ELSE IF limit_left(l, read - Len(response.rest)) THEN Err(UnexpectedData)
    ELSE Ok([req_id |-> ReqIdOf(id), packet |-> response.v])

\* packets::recv, lines 852-860, after the length: type and request id
\* read through lr = r.take(l), then the variant.
frame_recv(l, lr) ==
    LET type == u8_recv(lr)
        id   == IF type.v = SSH_FXP_VERSION THEN Read(U32(0), type.rest)
                ELSE u32_recv(type.rest)
    IN IF ~type.ok THEN type
       ELSE IF ~id.ok THEN id
       ELSE frame_end(l, Len(lr), id.v, recv_packet(type.v, id.rest))

\* packets::recv on the bytes s the read stream still holds.
packets_recv(s) ==
    LET l == u32_recv(s)
    IN IF ~l.ok THEN l
       ELSE frame_recv(l.v, SubSeq(l.rest, 1, take(l.v, Len(l.rest))))

\* The frames the peer sends in these runs.  A frame: the length word,
\* the type byte, the request id and the payload.
wire_frame(type, id, payload) ==
    be_bytes(U32(5 + Len(payload))) \o <<type>> \o be_bytes(U32(id)) \o payload

WireIds == 0..(MaxReqs - 1)

\* A type byte no response uses.
UnknownType == 200

\* Frames of an unknown type, with and without payload.
UnknownFrames ==
    {wire_frame(UnknownType, i, <<7, 8>>) : i \in WireIds}
    \cup {wire_frame(UnknownType, 0, << >>)}

\* STATUS Ok with empty message and language tag, and HANDLE <<1>>.
StatusFrames ==
    {wire_frame(SSH_FXP_STATUS, 0,
                be_bytes(U32(0)) \o vec_write_to(<< >>) \o vec_write_to(<< >>))}
HandleFrames ==
    {wire_frame(SSH_FXP_HANDLE, MaxReqs - 1, vec_write_to(<<1>>))}

\* A HANDLE whose string declares two bytes where the frame holds one.
ShortStringFrames ==
    {wire_frame(SSH_FXP_HANDLE, 0, be_bytes(U32(2)) \o <<9>>)}

\* A HANDLE followed by one more byte inside the frame.
LeftoverFrames ==
    {wire_frame(SSH_FXP_HANDLE, 0, vec_write_to(<<1>>) \o <<9>>)}

\* A STATUS whose message is the single byte 0xFF.
BadUtf8Frames ==
    {wire_frame(SSH_FXP_STATUS, 0,
                be_bytes(U32(0)) \o vec_write_to(<<255>>) \o vec_write_to(<< >>))}

\* A frame that ends inside the request id, and a stream that ends inside
\* the string length of a HANDLE.
ShortFieldFrames ==
    {be_bytes(U32(3)) \o <<SSH_FXP_HANDLE, 0, 0>>,
     SubSeq(wire_frame(SSH_FXP_HANDLE, 0, vec_write_to(<<1>>)), 1, 10)}

MalformedFrames ==
    ShortStringFrames \cup LeftoverFrames \cup BadUtf8Frames \cup ShortFieldFrames

\* A VERSION frame, version 3 and no extensions: it has no request id.
VersionFrames ==
    {be_bytes(U32(5)) \o <<SSH_FXP_VERSION>> \o be_bytes(U32(SftpVersion))}

\* The read stream holding a frame of unknown type and, behind it, the
\* next frame.
TrailingFrames ==
    {wire_frame(UnknownType, 0, <<7, 8>>) \o fr : fr \in HandleFrames}

WireBytes ==
    UnknownFrames \cup StatusFrames \cup HandleFrames \cup MalformedFrames
    \cup VersionFrames \cup TrailingFrames

\* The frame the router read last and what packets::recv made of it.
FrameRead(b, res) == [op |-> "recv", bytes |-> b, res |-> res]

\* ClientReceiver::recv, lines 42-50: a frame that decodes and whose id
\* is registered.
WireDeliver ==
    /\ \E b \in WireBytes :
          LET res == packets_recv(b)
          IN /\ res.ok
             /\ RouterDeliverResp(res.v)
             /\ last' = FrameRead(b, res)
    /\ UNCHANGED <<file, sum, dir>>

\* Lines 42-45, 51: a frame that decodes and whose id is not registered.
WireNoMatch ==
    /\ \E b \in WireBytes :
          LET res == packets_recv(b)
          IN /\ res.ok
             /\ RouterNoMatchResp(res.v)
             /\ last' = FrameRead(b, res)
    /\ UNCHANGED <<file, sum, dir>>

\* Line 43: packets::recv returns an error.
WireRecvError ==
    /\ \E b \in WireBytes :
          LET res == packets_recv(b)
          IN /\ ~res.ok
             /\ RouterRecvErrorOf(res.e)
             /\ last' = FrameRead(b, res)
    /\ UNCHANGED <<file, sum, dir>>

WireNext ==
    \/ NewSendInit
    \/ NewRecv
    \/ \E t \in Callers : Begin(t)
    \/ \E t \in Callers : Register(t)
    \/ \E t \in Callers : LockW(t)
    \/ \E t \in Callers : Write(t)
    \/ \E t \in Callers : Receive(t)
    \/ WireDeliver
    \/ WireNoMatch
    \/ WireRecvError

WireSpec == Init /\ [][WireNext]_vars

\* ------------------------------- write calls one by one, honest peer
\* The number of write calls of call n that reached the write stream.
Written(n) == Cardinality({k \in 1..Len(w) : w[k].n = n})

\* The write calls of one frame.
FrameWrites == 4

\* send, lines 105-110: the next of the four write calls succeeds; after
\* the last one the guard is dropped and send returns Ok(rx).
WriteChunk(t) ==
    /\ caller[t].pc = "writing"
    /\ LET k == Written(caller[t].n)
       IN /\ w' = Append(w, send_chunks(caller[t].op, caller[t].n)[k + 1])
          /\ IF k + 1 = FrameWrites
             THEN /\ caller' = [caller EXCEPT ![t].pc = "wait"]
                  /\ w_lock' = 0
             ELSE UNCHANGED <<caller, w_lock>>
    /\ UNCHANGED <<new, req_id, requests, recv_error, router, chan, surfaceVars>>

\* send, lines 105-108: the next write call fails; try! returns the I/O
\* error, dropping the guard and rx and leaving the entry in the table.
WriteChunkFail(t) ==
    /\ caller[t].pc = "writing"
    /\ caller' = [caller EXCEPT ![t].pc = "ret", ![t].res = Err(Io)]
    /\ w_lock' = 0
    /\ UNCHANGED <<new, w, req_id, requests, recv_error, router, chan, surfaceVars>>

\* The calls the peer has answered.
Answered == IF last.op = "peer" THEN last.answered ELSE {}

\* A peer that answers, once and in any order, only requests whose whole
\* frame it has received; the router handles the response as
\* ClientReceiver::recv does (lines 46-52).
HonestAnswer ==
    /\ router.pc = "running"
    /\ \E n \in 0..(MaxReqs - 1) :
          /\ Written(n) = FrameWrites
          /\ n \notin Answered
          /\ \E p \in {Status("NoSuchFile"), Attrs(7)} :
                LET resp == recv(WireFrame(IdOf(n), p))
                IN IF lookup_key(resp) \in DOMAIN requests
                   THEN RouterDeliverResp(resp)
                   ELSE RouterNoMatchResp(resp)
          /\ last' = [op |-> "peer", answered |-> Answered \cup {n}]
    /\ UNCHANGED <<file, sum, dir>>

HonestNext ==
    \/ NewSendInit
    \/ NewRecv
    \/ \E t \in Callers : Begin(t)
    \/ \E t \in Callers : Register(t)
    \/ \E t \in Callers : LockW(t)
    \/ \E t \in Callers : WriteChunk(t)
    \/ \E t \in Callers : WriteChunkFail(t)
    \/ \E t \in Callers : Receive(t)
    \/ HonestAnswer
    \/ RouterRecvError

HonestSpec == Init /\ [][HonestNext]_vars

\* ------------------------------------------------- the two mutexes
\* The router thread, as a holder of the state mutex.
RouterThread == NumCallers + 1

\* What the router has read and is about to handle.
NoInput == [ok |-> FALSE, e |-> None]

\* The state mutex (recv_state): its holder, 0 when free, and the input
\* the router handles under it.
Held(h, input) == [op |-> "lock", holder |-> h, input |-> input]
StateLock == IF last.op = "lock" THEN last.holder ELSE 0

\* send, line 96: recv_state.lock() returns once the mutex is free.
LockState(t) ==
    /\ caller[t].pc = "alloc"
    /\ ~Poisoned
    /\ StateLock = 0
    /\ last' = Held(t, NoInput)
    /\ UNCHANGED <<coreVars, file, sum, dir>>

\* A send that keeps the state mutex when the block of lines 95-101 ends.
RegisterLocked_Hold(t) ==
    /\ StateLock = t \/ Poisoned
    /\ RegisterCore(t)
    /\ UNCHANGED surfaceVars

\* send, lines 97-101: the check and the insert under the state mutex,
\* which the end of the block releases; on a poisoned mutex lock()
\* returned Err and unwrap() panics.
RegisterLocked(t) ==
    /\ StateLock = t \/ Poisoned
    /\ RegisterCore(t)
    /\ last' = IF StateLock = t THEN Held(0, NoInput) ELSE last
    /\ UNCHANGED <<file, sum, dir>>

\* recv, lines 42-46: the router, holding r, reads a frame or an error and
\* then takes the state mutex.
RouterTake ==
    /\ router.pc = "running"
    /\ StateLock = 0
    /\ \E input \in {[ok |-> TRUE, fr |-> fr] : fr \in RouterFrames}
                       \cup {[ok |-> FALSE, e |-> e] : e \in RecvErrors} :
          last' = Held(RouterThread, input)
    /\ UNCHANGED <<coreVars, file, sum, dir>>

\* recv, lines 43, 47-52: the router handles its input under the state
\* mutex; the guard is dropped at the end of the turn, on return, and by
\* the unwinding of a panic.
RouterHandle ==
    /\ StateLock = RouterThread
    /\ IF last.input.ok
       THEN IF lookup_key(recv(last.input.fr)) \in DOMAIN requests
            THEN RouterDeliverResp(recv(last.input.fr))
            ELSE RouterNoMatchResp(recv(last.input.fr))
       ELSE RouterRecvErrorOf(last.input.e)
    /\ last' = Held(0, NoInput)
    /\ UNCHANGED <<file, sum, dir>>

LockNext ==
    \/ NewSendInit
    \/ NewRecv
    \/ \E t \in Callers : Begin(t)
    \/ \E t \in Callers : LockState(t)
    \/ \E t \in Callers : RegisterLocked(t)
    \/ \E t \in Callers : LockW(t)
    \/ \E t \in Callers : Write(t)
    \/ \E t \in Callers : WriteFail(t)
    \/ \E t \in Callers : Receive(t)
    \/ RouterTake
    \/ RouterHandle

LockSpec == Init /\ [][LockNext]_vars

\* ------------------------------------------ the counter at its wrap
\* The request counter as the 64-bit usize it is, in limbs, and the ids as
\* u32 in limbs.  AtomicUsize::fetch_add(1): the value left behind.
fetch_add(counter) == wrapping_add(counter, U64(1))

\* A cast that keeps the whole counter.
as_ReqId_wide(counter) == counter

\* `as ReqId': the low 32 bits.
as_ReqId(counter) == SubSeq(counter, 1, U32Limbs)

\* The counter after 2^32 - 1 requests, and the requests dispatched from
\* there on in these runs.
WrapStart == [j \in 1..U64Limbs |-> IF j <= U32Limbs THEN Limb - 1 ELSE 0]
MaxWrap == 2

\* The Sender of the channel of the call of thread t that fetched counter
\* value n, and whether its Receiver still exists.
Tx(t, n) == [t |-> t, n |-> n]
WrapRxAlive(tx) == caller[tx.t].n = tx.n /\ caller[tx.t].pc \in InCall

\* The state after 2^32 - 1 requests of which the first, dispatched by
\* the thread Owner, is still waiting for its reply and all others have
\* returned; w holds what is written from here on, chan one channel per
\* thread.
WrapInit ==
    /\ new = [pc |-> "ready", resp |-> NoFrame, res |-> NoResult]
    /\ w = << >>
    /\ w_lock = 0
    /\ req_id = WrapStart
    /\ requests = insert(EmptyMap, as_ReqId(U64(0)), Tx(Owner, U64(0)))
    /\ recv_error = None
    /\ router = [pc |-> "running", e |-> None]
    /\ chan = [t \in Callers |-> << >>]
    /\ caller = [t \in Callers |->
                    [pc |-> IF t = Owner THEN "wait" ELSE "idle",
                     n |-> U64(0), op |-> "stat", res |-> NoResult]]
    /\ SurfaceIdle

\* send, lines 93-94: next_id() and mpsc::channel().
WrapBegin(t) ==
    /\ caller[t].pc \in {"idle", "ret"}
    /\ req_id[U32Limbs + 1] = 0 \/ req_id[1] < MaxWrap - 1
    /\ caller' = [caller EXCEPT ![t] =
                     [pc |-> "alloc", n |-> req_id, op |-> "stat", res |-> NoResult]]
    /\ chan' = [chan EXCEPT ![t] = << >>]
    /\ req_id' = fetch_add(req_id)
    /\ UNCHANGED <<new, w, w_lock, requests, recv_error, router, surfaceVars>>

\* send, lines 96-101.  HashMap::insert replaces the entry already stored
\* under the id; the Sender it held is dropped.
WrapRegister(t) ==
    /\ caller[t].pc = "alloc"
    /\ IF Poisoned
       THEN /\ caller' = [caller EXCEPT ![t].pc = "panicked"]
            /\ UNCHANGED requests
       ELSE IF recv_error # None
       THEN /\ caller' = [caller EXCEPT ![t].pc = "ret",
                             ![t].res = Err(ReceiverDisconnected(recv_error))]
            /\ UNCHANGED requests
       ELSE /\ requests' = insert(requests, as_ReqId(caller[t].n),
                                  Tx(t, caller[t].n))
            /\ caller' = [caller EXCEPT ![t].pc = "registered"]
    /\ UNCHANGED <<new, w, w_lock, req_id, recv_error, router, chan, surfaceVars>>

\* send, lines 105-110: the four write calls, the id as a u32.
WrapWrite(t) ==
    /\ caller[t].pc = "writing"
    /\ w_lock = t
    /\ w' = w \o << Chunk("len", body_len(caller[t].op) + 5, caller[t].n),
                    Chunk("type", msg_type(caller[t].op), caller[t].n),
                    Chunk("id", as_ReqId(caller[t].n), caller[t].n),
                    Chunk("body", body_len(caller[t].op), caller[t].n) >>
    /\ caller' = [caller EXCEPT ![t].pc = "wait"]
    /\ w_lock' = 0
    /\ UNCHANGED <<new, req_id, requests, recv_error, router, chan, surfaceVars>>

\* send_receive, line 116: rx.recv().unwrap() returns the value sent, and
\* panics when the Sender was dropped without a send.
WrapReceive(t) ==
    /\ caller[t].pc = "wait"
    /\ IF chan[t] # << >>
       THEN /\ caller' = [caller EXCEPT ![t].pc = "ret", ![t].res = Head(chan[t])]
            /\ chan' = [chan EXCEPT ![t] = Tail(@)]
       ELSE /\ \A i \in DOMAIN requests : requests[i] # Tx(t, caller[t].n)
            /\ caller' = [caller EXCEPT ![t].pc = "panicked"]
            /\ UNCHANGED chan
    /\ UNCHANGED <<new, w, w_lock, req_id, requests, recv_error, router, surfaceVars>>

\* The ids of the requests of these runs.
WrapIds == {as_ReqId(U64(0)), as_ReqId(WrapStart), as_ReqId(fetch_add(fetch_add(WrapStart)))}

\* ClientReceiver::recv, lines 46-52, for a STATUS response with id `id'.
WrapRouterRecv ==
    /\ router.pc = "running"
    /\ \E id \in WrapIds :
          IF id \in DOMAIN requests
          THEN /\ requests' = remove(requests, id)
               /\ IF WrapRxAlive(requests[id])
                  THEN /\ chan' = [chan EXCEPT ![requests[id].t] =
                                      Append(@, Delivered([req_id |-> id,
                                                           packet |-> Status("NoSuchFile")]))]
                       /\ UNCHANGED router
                  ELSE /\ router' = [pc |-> "panicked", e |-> None]
                       /\ UNCHANGED chan
               /\ UNCHANGED recv_error
          ELSE IF \A i \in DOMAIN requests : WrapRxAlive(requests[i])
          THEN /\ chan' = [t \in Callers |->
                             IF \E i \in DOMAIN requests : requests[i].t = t
                             THEN Append(chan[t],
                                         Err(ReceiverDisconnected(NoMatchingRequest(id))))
                             ELSE chan[t]]
               /\ requests' = EmptyMap
               /\ recv_error' = NoMatchingRequest(id)
               /\ router' = [pc |-> "exited", e |-> NoMatchingRequest(id)]
          ELSE /\ router' = [pc |-> "panicked", e |-> NoMatchingRequest(id)]
               /\ UNCHANGED <<requests, recv_error, chan>>
    /\ UNCHANGED <<new, w, w_lock, req_id, caller, surfaceVars>>

WrapNext ==
    \/ \E t \in Callers : WrapBegin(t)
    \/ \E t \in Callers : WrapRegister(t)
    \/ \E t \in Callers : LockW(t)
    \/ \E t \in Callers : WrapWrite(t)
    \/ \E t \in Callers : WrapReceive(t)
    \/ WrapRouterRecv

WrapSpec == WrapInit /\ [][WrapNext]_vars

\* ---------------------------------------------- the length word
\* `as u32' of a usize: the low 32 bits.
as_u32(x) == SubSeq(x, 1, U32Limbs)

\* a + b on u32: the wrapped sum, and whether it overflowed.
u32_add(a, b) ==
    [sum |-> wrapping_add(a, b), overflow |-> carry_into(a, b, U32Limbs + 1) > 0]

\* send, line 105, and send_init, line 83: bytes.len() as u32 + header,
\* header the bytes between the length word and the body.
len_word(bytes_len, header) == u32_add(as_u32(bytes_len), U32(header))

\* The requests that go through send, and bytes.len() of their serialized
\* bodies: a few short ones, and the lengths around 2^32 that a 64-bit
\* usize holds (a File::write of a buffer of 4 GiB).
FrameOps == TypedOps \cup {"read", "write", "close", "ReadDir.next"}
MaxBody == 4
BodyLens ==
    {U64(k) : k \in 4..(4 + MaxBody)}
    \cup {[j \in 1..U64Limbs |-> IF j = 1 THEN Limb - k
                                 ELSE IF j = 2 THEN Limb - 1 ELSE 0] : k \in 1..6}
    \cup {[j \in 1..U64Limbs |-> IF j = 1 THEN k
                                 ELSE IF j = 3 THEN 1 ELSE 0] : k \in 0..1}

\* The bytes of a frame as written: the length word and the number of
\* bytes written behind it.
FrameWritten(op, build, word, following) ==
    [op |-> op, build |-> build, written |-> TRUE, len |-> word,
     following |-> following]

\* The addition overflowed in a build with overflow checks: a panic,
\* nothing written.
FramePanic(op, build) ==
    [op |-> op, build |-> build, written |-> FALSE, len |-> U32(0),
     following |-> U64(0)]

\* send, lines 102-108, for a body of bytes_len bytes: length word, type
\* byte, request id, body.
FrameSend ==
    /\ last.op = "none"
    /\ \E op \in FrameOps, bytes_len \in BodyLens, build \in Builds :
          LET word == len_word(bytes_len, 5)
          IN last' = IF word.overflow /\ build = "debug"
                     THEN FramePanic(op, build)
                     ELSE FrameWritten(op, build, word.sum,
                                       wrapping_add(bytes_len, U64(1 + 4)))
    /\ UNCHANGED <<coreVars, file, sum, dir>>

\* send_init, lines 79-87: the body of FxpInit{version: 3, extensions: []}
\* is one u32; length word, type byte, body.
FrameSendInit ==
    /\ last.op = "none"
    /\ \E build \in Builds :
          LET word == len_word(U64(init_body_len), 1)
          IN last' = IF word.overflow /\ build = "debug"
                     THEN FramePanic("init", build)
                     ELSE FrameWritten("init", build, word.sum,
                                       wrapping_add(U64(init_body_len), U64(1)))
    /\ UNCHANGED <<coreVars, file, sum, dir>>

FrameNext == FrameSend \/ FrameSendInit

FrameSpec == Init /\ [][FrameNext]_vars

\* --------------------------------------------------------- OpenOptions
SSH_FXF_READ   == U32(1)
SSH_FXF_WRITE  == U32(2)
SSH_FXF_APPEND == U32(4)
SSH_FXF_CREAT  == U32(8)
SSH_FXF_TRUNC  == U32(16)
SSH_FXF_EXCL   == U32(32)

\* The builder methods and the bit each passes to flag().
Options == {"read", "write", "append", "create", "truncate", "exclude"}

option_bit(o) ==
    CASE o = "read"     -> SSH_FXF_READ
      [] o = "write"    -> SSH_FXF_WRITE
      [] o = "append"   -> SSH_FXF_APPEND
      [] o = "create"   -> SSH_FXF_CREAT
      [] o = "truncate" -> SSH_FXF_TRUNC
      [] o = "exclude"  -> SSH_FXF_EXCL

\* !bit on a u32.
bitnot(a) == [j \in DOMAIN a |-> (Limb - 1) - a[j]]

\* A flag() that sets the bit whatever `enabled' says.
flag_set(flags, bit, enabled) == bitor(flags, bit)

\* OpenOptions::flag, lines 288-295.
flag(flags, bit, enabled) ==
    IF enabled THEN bitor(flags, bit) ELSE bitand(flags, bitnot(bit))

\* Client::open_options: a builder with flags 0.  `recent' records what
\* the latest call of each builder method passed.
OpenOptionsNew ==
    /\ last.op = "none"
    /\ last' = [op |-> "OpenOptions", flags |-> U32(0),
                recent |-> [o \in Options |-> FALSE]]
    /\ UNCHANGED <<coreVars, file, sum, dir>>

\* read(), write(), append(), create(), truncate(), exclude().
OpenOptionsSet ==
    /\ last.op \in {"OpenOptions", "OpenOptions.open"}
    /\ \E o \in Options, enabled \in BOOLEAN :
          last' = [op |-> "OpenOptions",
                   flags |-> flag(last.flags, option_bit(o), enabled),
                   recent |-> [last.recent EXCEPT ![o] = enabled]]
    /\ UNCHANGED <<coreVars, file, sum, dir>>

\* OpenOptions::open: self.client.open(path, self.flags) builds
\* FxpOpen{pflags: self.flags}.
OpenOptionsOpen ==
    /\ last.op = "OpenOptions"
    /\ last' = [op |-> "OpenOptions.open", flags |-> last.flags,
                recent |-> last.recent, pflags |-> last.flags]
    /\ UNCHANGED <<coreVars, file, sum, dir>>

OptionsNext == OpenOptionsNew \/ OpenOptionsSet \/ OpenOptionsOpen

OptionsSpec == Init /\ [][OptionsNext]_vars

\* =========================================================== claims
\* The error a failed call reports, None for a successful one.
ErrOf(r) == IF r.ok THEN None ELSE r.e

IsDisconnected(r) == ErrOf(r).name = "ReceiverDisconnected"

\* Caller t is back from send_receive.
HasReturned(t) == caller[t].pc = "ret"

\* C1: a send_receive call that returns a packet returns the packet of the
\* response frame whose request id is the id allocated to that call, and
\* every reply waiting in a call's channel carries that call's id: no
\* caller receives the reply to another caller's request.
C1_ReplyMatchesRequest ==
    /\ \A t \in Callers :
          (HasReturned(t) /\ caller[t].res.ok)
             => caller[t].res.rid = IdOf(caller[t].n)
    /\ \A n \in DOMAIN chan : \A k \in 1..Len(chan[n]) :
          chan[n][k].ok => chan[n][k].rid = IdOf(n)

\* C1's case: the reply to the later request 1 has been returned while the
\* earlier request 0, fully written, still waits (answers out of order).
C1_Witness ==
    \E t, u \in Callers :
       /\ caller[t].pc = "wait" /\ caller[t].n = 0
       /\ HasReturned(u) /\ caller[u].n = 1 /\ caller[u].res.ok

\* A step in which the router runs broadcast_error.
BroadcastStep == router.pc = "running" /\ router'.pc # "running" /\ router'.e # None

\* C2: when the router performs broadcast-terminal-error, every waiter
\* registered in the pending table at that moment receives exactly one
\* Err(ReceiverDisconnected(cause)), all with the same cause, and the
\* pending table is empty afterwards.
C2_BroadcastReachesAll ==
    [][ BroadcastStep =>
          /\ requests' = EmptyMap
          /\ \A i \in DOMAIN requests :
                RxAlive(requests[i]) =>
                   chan'[requests[i]] = << Err(ReceiverDisconnected(router'.e)) >>
      ]_vars

\* C3: once recv_error is set it keeps its cause, and a call that reaches
\* the check of send with recv_error set returns, in that one step,
\* ReceiverDisconnected with that cause, adding no entry to the pending
\* table and writing nothing to the write stream.
C3_FailFast ==
    [][ /\ recv_error # None => recv_error' = recv_error
        /\ \A t \in Callers :
              (caller[t].pc = "alloc" /\ recv_error # None /\ caller'[t] # caller[t])
                 => /\ caller'[t].pc = "ret"
                    /\ caller'[t].res = Err(ReceiverDisconnected(recv_error))
                    /\ requests' = requests
                    /\ w' = w
      ]_vars

\* Call n wrote nothing to the write stream.
WroteNothing(n) == \A k \in 1..Len(w) : w[k].n # n

\* C3's case: a call made after the client failed has returned
\* ReceiverDisconnected with the recorded cause, having written nothing.
C3_Witness ==
    \E t \in Callers :
       /\ recv_error # None
       /\ HasReturned(t)
       /\ caller[t].res = Err(ReceiverDisconnected(recv_error))
       /\ WroteNothing(caller[t].n)
       /\ requests = EmptyMap

\* The read stream has failed or ended under the router.
StreamDied == router.pc # "running" /\ router.e \in RecvErrors

\* Caller t is blocked in rx.recv() with no reply delivered to it.
Blocked(t) ==
    /\ caller[t].pc = "wait"
    /\ \A k \in 1..Len(chan[caller[t].n]) : ~chan[caller[t].n][k].ok

\* C4: if the read stream fails or ends while callers are blocked in
\* send_receive, every one of them eventually returns with
\* ReceiverDisconnected.
C4_BlockedCallersReleased ==
    \A t \in Callers :
       (StreamDied /\ Blocked(t)) ~> (HasReturned(t) /\ IsDisconnected(caller[t].res))

\* The success variant each typed operation expects.
Expected(op) ==
    CASE op \in {"stat", "lstat", "File.stat"}  -> "Attrs"
      [] op \in {"realpath", "readlink"}        -> "Name"
      [] op \in {"open", "readdir"}             -> "Handle"
      [] OTHER                                  -> "Status"

\* C5: for every typed operation of Client and File, a Status reply with a
\* non-Ok code yields ServerError(status), and a reply of any variant
\* other than the expected success variant or Status yields
\* UnexpectedResponse.
C5_StatusIsServerError ==
    (last.op \in TypedOps /\ last.r.ok) =>
       /\ (last.r.v.kind = "Status" /\ last.r.v.code # "Ok")
             => last.res = Err(FromServer(last.r.v))
       /\ last.r.v.kind \notin {"Status", Expected(last.op)}
             => last.res = Err(UnexpectedResponse(last.r.v))

\* A per-request error: ServerError or UnexpectedResponse.
PerRequestError(r) == ErrOf(r).name \in {"FromServer", "UnexpectedResponse"}

\* The caller thread running call n.
CallerOf(n) == CHOOSE t \in Callers : caller[t].n = n /\ caller[t].pc \in InCall

\* The calls to which this step sends a reply that their typed operation
\* maps to a per-request error.
ErrorRepliesSent ==
    {n \in DOMAIN chan :
        /\ Len(chan'[n]) > Len(chan[n])
        /\ chan'[n][Len(chan'[n])].ok
        /\ PerRequestError(TypedResult(caller[CallerOf(n)].op,
                                       chan'[n][Len(chan'[n])]))}

\* C6: a per-request error touches only the request that received it.
\* The router step that delivers such a reply leaves recv_error unset,
\* keeps running and removes that request's entry alone; the step in
\* which the caller returns the error changes nothing but that caller.
C6_PerRequestErrorIsLocal ==
    [][ /\ \A n \in ErrorRepliesSent :
              /\ recv_error = None /\ recv_error' = None
              /\ router' = router
              /\ DOMAIN requests' = DOMAIN requests \ {IdOf(n)}
              /\ \A i \in DOMAIN requests' : requests'[i] = requests[i]
              /\ \A m \in DOMAIN chan \ {n} : chan'[m] = chan[m]
              /\ caller' = caller
        /\ \A t \in Callers :
              (caller[t].pc = "wait" /\ caller'[t].pc = "ret"
                 /\ PerRequestError(TypedResult(caller[t].op, caller'[t].res)))
                 => /\ recv_error' = recv_error
                    /\ router' = router
                    /\ requests' = requests
                    /\ \A u \in Callers \ {t} : caller'[u] = caller[u]
                    /\ \A m \in DOMAIN chan \ {caller[t].n} : chan'[m] = chan[m]
      ]_vars

\* C6's case: one caller has returned a per-request error and another
\* caller has since received its own reply, with the client not failed.
C6_Witness ==
    \E t, u \in Callers :
       /\ HasReturned(t) /\ PerRequestError(TypedReturn(t))
       /\ HasReturned(u) /\ caller[u].res.ok /\ TypedReturn(u).ok
       /\ caller[u].n > caller[t].n
       /\ recv_error = None /\ router.pc = "running"

\* The first frame Client::new read, if it read one.
FirstPacket == new.resp.p

\* C7: Client::new fails with MismatchedVersion(v) when the first frame
\* is VERSION with v other than 3 and with UnexpectedResponse when it is
\* any other response kind; whenever it fails (also on an I/O or codec
\* error) no client is returned and no router is started.
C7_HandshakeFailure ==
    /\ (FirstPacket.kind = "Version" /\ FirstPacket.n # 3)
          => new.res = Err(MismatchedVersion(FirstPacket.n))
    /\ FirstPacket.kind \notin {"Version", "None"}
          => new.res = Err(UnexpectedResponse(FirstPacket))
    /\ new.pc = "failed" => ~new.res.ok
    /\ ~new.res.ok
          => /\ router.pc = "none"
             /\ req_id = 0
             /\ \A t \in Callers : caller[t].pc = "idle"

\* C7's cases: the constructor failed on a VERSION of another version, on
\* a response of another kind, or on a read error.
C7_Witness ==
    /\ new.pc = "failed"
    /\ FirstPacket.kind = "Version" /\ FirstPacket.n = 4
    /\ new.res = Err(MismatchedVersion(4))

INIT_frame ==
    << Chunk("len", 5, -1), Chunk("type", 1, -1), Chunk("body", 3, -1) >>

IsPrefix(a, b) == Len(a) <= Len(b) /\ SubSeq(b, 1, Len(a)) = a

\* The constructing thread has read VERSION with version 3.
HandshakeDone == FirstPacket = Version(3)

\* C8: INIT{version=3} is the first frame on the write stream and is
\* written once; no frame carrying a request id is written, and the
\* router does not run (so does not read), before the constructing thread
\* has read a VERSION frame with version 3.
C8_HandshakeOrdering ==
    /\ IsPrefix(w, INIT_frame) \/ IsPrefix(INIT_frame, w)
    /\ Cardinality({k \in 1..Len(w) : w[k].f = "type" /\ w[k].v = 1}) <= 1
    /\ (\E k \in 1..Len(w) : w[k].n >= 0) => HandshakeDone
    /\ router.pc # "none" => HandshakeDone
    /\ new.pc \in {"sent", "ready"} => IsPrefix(INIT_frame, w)

\* C8's case: after the handshake a request frame with an id follows the
\* single INIT on the write stream and the router has consumed a frame.
C8_Witness ==
    /\ HandshakeDone
    /\ Len(w) >= 7 /\ w[6].f = "id"
    /\ \E t \in Callers : HasReturned(t) /\ caller[t].res.ok

\* C9: a File starts with cursor 0; every READ and WRITE request carries
\* as its offset the cursor at the time it is issued; after any sequence
\* of reads and writes the cursor is the sum of the byte counts they
\* returned.
C9_CursorIsSumOfReturned ==
    /\ [](file.open => file.offset = U64(sum))
    /\ [][ /\ (~file.open /\ file'.open) => file'.offset = U64(0)
           /\ (last' # last /\ last'.op \in {"read", "write"})
                 => last'.offset = file.offset
       ]_vars

\* C9's case: a read and then a write have each returned bytes, the
\* write issued at the offset the read left.
C9_Witness ==
    /\ file.open
    /\ last.op = "write" /\ last.offset = U64(2) /\ last.res = Ok(Usize(1))
    /\ file.offset = U64(3)

\* C10: a read answered by Status{EOF} returns 0 bytes and leaves the
\* cursor unchanged; a Data{bytes} reply returns min(buf_len, len(bytes))
\* and advances the cursor by exactly that number.
C10_ReadEofAndData ==
    [][ (last'.op = "read" /\ (last' # last \/ file' # file) /\ last'.r.ok) =>
          /\ (last'.r.v.kind = "Status" /\ last'.r.v.code = "EOF")
                => /\ last'.res = Ok(Usize(0))
                   /\ file'.offset = file.offset
          /\ last'.r.v.kind = "Data"
                => /\ last'.res.ok
                   /\ last'.res.v.n = Min(last'.len, last'.r.v.n)
                   /\ file'.offset = wrapping_add(file.offset, U64(last'.res.v.n))
      ]_vars

\* C10's cases: a Data reply longer than the buffer was cut to the buffer.
C10_Witness ==
    /\ last.op = "read" /\ last.len = 2
    /\ last.r = Ok(Data(3)) /\ last.res = Ok(Usize(2))
    /\ file.offset = wrapping_add(last.offset, U64(2))

\* The io::ErrorKind the claim gives for a status code.
KindFor(code) ==
    CASE code = "NoSuchFile"       -> "NotFound"
      [] code = "PermissionDenied" -> "PermissionDenied"
      [] OTHER                     -> "Other"

\* The status code that is the success case of a read or a write.
SuccessCode(op) == IF op = "read" THEN "EOF" ELSE "Ok"

\* C11: for File read and write, a Status reply other than the success
\* case (EOF for read, Ok for write) is returned as an I/O error of kind
\* not-found for NoSuchFile, permission-denied for PermissionDenied and
\* other for every remaining code; every failing call, a dispatcher error
\* included, leaves the cursor unchanged; a write answered by Status{Ok}
\* returns buf.len() and advances the cursor by buf.len().
C11_ReadWriteErrors ==
    [][ (last'.op \in {"read", "write"} /\ (last' # last \/ file' # file)) =>
          /\ (last'.r.ok /\ last'.r.v.kind = "Status"
                /\ last'.r.v.code # SuccessCode(last'.op))
                => last'.res = Err(IoError(KindFor(last'.r.v.code)))
          /\ ~last'.r.ok => ~last'.res.ok
          /\ ~last'.res.ok => file'.offset = file.offset
          /\ (last'.op = "write" /\ last'.r = Ok(Status("Ok")))
                => /\ last'.res = Ok(Usize(last'.len))
                   /\ file'.offset = wrapping_add(file.offset, U64(last'.len))
      ]_vars

\* C11's case: with the cursor at 2, a write was refused with
\* PermissionDenied and the cursor is still at 2.
C11_Witness ==
    /\ last.op = "write" /\ last.len = 2
    /\ last.r = Ok(Status("PermissionDenied"))
    /\ last.res = Err(IoError("PermissionDenied"))
    /\ last.offset = U64(2) /\ file.offset = U64(2)

\* Exact integer arithmetic for stating the seek claims: a u64 or an i64
\* widened by one limb, so that no sum of two words overflows.
WideLimbs == U64Limbs + 1
FromU64(x) == [j \in 1..WideLimbs |-> IF j <= U64Limbs THEN x[j] ELSE 0]
FromI64(x) ==
    [j \in 1..WideLimbs |->
        IF j <= U64Limbs THEN x[j] ELSE IF is_negative(x) THEN Limb - 1 ELSE 0]

\* cursor + i as integers, whether it is below 0, and whether it is a u64.
ExactSum(u, i) == wrapping_add(FromU64(u), FromI64(i))
BelowZero(u, i) == is_negative(ExactSum(u, i))
InU64Range(u, i) == ExactSum(u, i)[WideLimbs] = 0

\* The seek recorded in last' is the seek this step performed.
SeekStep(whence) ==
    /\ last'.op = "seek"
    /\ last'.pos.whence = whence
    /\ last' # last \/ file' # file

\* C12: seek(Start(i)) sets the cursor to i; seek(Current(i)) fails
\* without changing the cursor when cursor+i < 0 and otherwise sets the
\* cursor to cursor+i, for every u64 cursor and every i64 i whose sum is
\* in the u64 range.
C12_SeekStartCurrent ==
    [][ /\ SeekStep("Start") =>
              /\ file'.offset = last'.pos.i
              /\ last'.res = Ok(Offset64(last'.pos.i))
        /\ SeekStep("Current") =>
              /\ BelowZero(file.offset, last'.pos.i)
                    => /\ ~last'.res.ok /\ last'.res # Panicked
                       /\ file'.offset = file.offset
              /\ InU64Range(file.offset, last'.pos.i)
                    => /\ FromU64(file'.offset) = ExactSum(file.offset, last'.pos.i)
                       /\ last'.res = Ok(Offset64(file'.offset))
      ]_vars

\* C13: seek(End(i)) fails, leaving the cursor unchanged, when the FSTAT
\* reply is not Attrs, when the Attrs omit size, or when size+i < 0;
\* otherwise it sets the cursor to exactly size+i, also for negative i.
C13_SeekEnd ==
    [][ SeekStep("End") =>
          IF ~last'.r.ok \/ last'.r.v.kind # "Attrs" \/ last'.r.v.code = "nosize"
          THEN /\ ~last'.res.ok /\ last'.res # Panicked
               /\ file'.offset = file.offset
          ELSE /\ BelowZero(last'.r.v.n, last'.pos.i)
                     => /\ ~last'.res.ok /\ last'.res # Panicked
                        /\ file'.offset = file.offset
               /\ InU64Range(last'.r.v.n, last'.pos.i)
                     => /\ FromU64(file'.offset) = ExactSum(last'.r.v.n, last'.pos.i)
                        /\ last'.res = Ok(Offset64(file'.offset))
      ]_vars

\* The names among the items a ReadDir has yielded, in order.
NamesYielded ==
    LET oks == SelectSeq(dir.items, LAMBDA x : x.ok)
    IN [k \in 1..Len(oks) |-> oks[k].v]

\* C14: iterating a ReadDir yields every name of every Name reply once,
\* in the order the server returned them (what was yielded, followed by
\* what is still buffered, is what the server sent); a READDIR is issued
\* only when the buffer is empty; next() returns None at a Status{EOF}
\* reply, having buffered nothing, and yields one error for a dispatcher
\* error or any other reply variant.
C14_ReadDirYieldsAllInOrder ==
    /\ [](NamesYielded \o dir.names = dir.served)
    /\ [][ dir'.reqs # dir.reqs =>
             /\ dir.names = << >>
             /\ dir'.reqs = dir.reqs + 1
             /\ (last'.r.ok /\ last'.r.v.kind = "Status" /\ last'.r.v.code = "EOF")
                   => /\ dir'.items = Append(dir.items, End)
                      /\ dir'.names = << >>
             /\ ~last'.r.ok => dir'.items = Append(dir.items, last'.r)
             /\ (last'.r.ok /\ last'.r.v.kind # "Name"
                   /\ ~(last'.r.v.kind = "Status" /\ last'.r.v.code = "EOF"))
                   => /\ dir'.items = Append(dir.items, Err(UnexpectedResponse(last'.r.v)))
                      /\ dir'.names = << >>
       ]_vars

\* C14's case: two Name replies of two names each were iterated to the
\* end: four names in the server's order, then None at Status{EOF}.
C14_Witness ==
    /\ dir.items = << Ok(NameEntry(1)), Ok(NameEntry(2)),
                      Ok(NameEntry(1)), Ok(NameEntry(2)), End >>
    /\ dir.reqs = 3
    /\ dir.names = << >>

\* C17: realpath and readlink return the last element of the Name list of
\* the server's reply, and UnexpectedResponse when the list is empty.
C17_RealpathLastName ==
    (last.op \in {"realpath", "readlink"} /\ last.r.ok /\ last.r.v.kind = "Name") =>
       IF last.r.v.n = 0
       THEN last.res = Err(UnexpectedResponse(last.r.v))
       ELSE last.res = Ok(NameEntry(last.r.v.n))

\* C17's case: readlink answered by a list of two names returned the
\* second.
C17_Witness ==
    /\ last.op = "readlink"
    /\ last.r = Ok(Name(2))
    /\ last.res = Ok(NameEntry(2))

\* Thread t starts a send_receive in this step.
Begins(t) == caller[t].pc \notin InCall /\ caller'[t].pc = "alloc"

\* The threads that start a send_receive of `op' on handle h in this step.
Starting(op, h) ==
    {t \in Callers : Begins(t) /\ caller'[t].op = op /\ caller'[t].h = h}

\* A request of `ops' starts only on the handle of a live object.
OnLiveHandle(ops, obj) ==
    \A t \in Callers :
        Begins(t) /\ caller'[t].op \in ops =>
            obj.open /\ caller'[t].h = obj.handle

\* C15: dropping the File or ReadDir that owns a handle, while the client
\* is Ready, starts exactly one request on that handle and it is a CLOSE;
\* every FSTAT, READDIR or CLOSE starts on the handle of an object that
\* is still alive, so none follows the CLOSE of the drop.
C15_DropIssuesOneClose ==
    [][ /\ OnLiveHandle(FileObjOps, file)
        /\ OnLiveHandle(DirObjOps, dir)
        /\ file.open /\ ~file'.open =>
              /\ Cardinality(Starting("File.drop", file.handle)) = 1
              /\ msg_type("File.drop") = SSH_FXP_CLOSE
        /\ dir.open /\ ~dir'.open =>
              /\ Cardinality(Starting("ReadDir.drop", dir.handle)) = 1
              /\ msg_type("ReadDir.drop") = SSH_FXP_CLOSE ]_vars

\* A File was used for an FSTAT and then dropped; its CLOSE is the last
\* frame written and the drop has returned.
C15_Witness ==
    /\ ~file.open
    /\ caller[Owner].pc = "ret" /\ caller[Owner].op = "File.drop"
    /\ caller[Owner].h = file.handle
    /\ \E i \in DOMAIN w :
          /\ w[i] = Chunk("type", SSH_FXP_FSTAT, caller[Owner].n - 1)
          /\ i + 4 \in DOMAIN w
          /\ w[i + 4] = Chunk("type", SSH_FXP_CLOSE, caller[Owner].n)
          /\ Len(w) = i + 6

\* C16: dropping a File or a ReadDir never propagates a failure: whatever
\* happens to its CLOSE, the drop does not panic out of send_receive.
C16_DropNeverFails ==
    \A t \in Callers :
        caller[t].op \in DropOps => caller[t].pc # "panicked"

\* Whether the paired fields of a FileAttr are present together.
Paired(a) ==
    /\ is_some(a.uid) <=> is_some(a.gid)
    /\ is_some(a.atime) <=> is_some(a.mtime)

\* C18: for a FileAttr whose uid and gid, and whose atime and mtime, are
\* present together, decoding the bytes of the encoder consumes exactly
\* those bytes and yields the original value, extensions in order.
C18_FileAttrRoundTrip ==
    (last.op = "FileAttr.recv" /\ Paired(last.attr)) =>
        /\ last.res.ok
        /\ last.res.v = last.attr
        /\ last.res.rest = << >>

\* The bytes of a field wherever the flag word has the bit `mask'.
Flagged(flags, mask, bytes) ==
    IF bitand(flags, mask) # U32(0) THEN bytes ELSE << >>

\* C19: the encoder emits the flag word, then exactly the fields whose
\* flag bit is set, in the order size, uid, gid, perms, atime, mtime, then,
\* iff the extension bit is set, a u32 count and that many extensions.
C19_EncoderLayout ==
    last.op = "FileAttr.write_to" =>
        LET a == last.attr
            flags == [j \in 1..U32Limbs |->
                         last.bytes[2 * (U32Limbs - j) + 1] * Byte
                             + last.bytes[2 * (U32Limbs - j) + 2]]
        IN last.bytes =
              SubSeq(last.bytes, 1, 4)
              \o Flagged(flags, SSH_FILEXFER_ATTR_SIZE, be_bytes(a.size.x))
              \o Flagged(flags, SSH_FILEXFER_ATTR_UIDGID, be_bytes(a.uid.x))
              \o Flagged(flags, SSH_FILEXFER_ATTR_UIDGID, be_bytes(a.gid.x))
              \o Flagged(flags, SSH_FILEXFER_ATTR_PERMISSIONS, be_bytes(a.perms.x))
              \o Flagged(flags, SSH_FILEXFER_ATTR_ACMODTIME, be_bytes(a.atime.x))
              \o Flagged(flags, SSH_FILEXFER_ATTR_ACMODTIME, be_bytes(a.mtime.x))
              \o Flagged(flags, SSH_FILEXFER_ATTR_EXTENDED,
                         be_bytes(U32(Len(a.extensions)))
                             \o extensions_write_to(a.extensions))

\* The value of a flag bit that is set iff `present'.
BitIf(present, value) == IF present THEN value ELSE 0

\* C20: the four bytes of the flag word carry 0x1 iff size is present, 0x2
\* iff uid and gid both are, 0x4 iff perms is, 0x8 iff atime and mtime
\* both are, 0x80000000 iff there are extensions, and nothing else;
\* FileAttr::new() encodes to the flag word 0.
C20_FlagWord ==
    last.op = "FileAttr.write_to" =>
        LET a == last.attr
        IN /\ Len(last.bytes) >= 4
           /\ SubSeq(last.bytes, 1, 4) =
                 << BitIf(Len(a.extensions) > 0, 128), 0, 0,
                    BitIf(is_some(a.size), 1)
                      + BitIf(is_some(a.uid) /\ is_some(a.gid), 2)
                      + BitIf(is_some(a.perms), 4)
                      + BitIf(is_some(a.atime) /\ is_some(a.mtime), 8) >>
           /\ a = FileAttr_new => last.bytes = <<0, 0, 0, 0>>

\* A FileAttr with every flag bit set was serialized.
C20_Witness ==
    /\ last.op = "FileAttr.write_to"
    /\ SubSeq(last.bytes, 1, 4) = <<128, 0, 0, 15>>
    /\ is_some(last.attr.perms)
    /\ Len(last.attr.extensions) = MaxExts

\* C21: after any sequence of builder calls the flags, and the pflags sent
\* in OPEN, are the sum of READ=0x01, WRITE=0x02, APPEND=0x04, CREAT=0x08,
\* TRUNC=0x10, EXCL=0x20 over exactly the options whose most recent call
\* passed true, so a call on one option leaves the other bits alone.
C21_OpenFlags ==
    last.op \in {"OpenOptions", "OpenOptions.open"} =>
        LET on(o, value) == IF last.recent[o] THEN value ELSE 0
            mask == <<on("read", 1) + on("write", 2) + on("append", 4)
                        + on("create", 8) + on("truncate", 16)
                        + on("exclude", 32), 0>>
        IN /\ last.flags = mask
           /\ last.op = "OpenOptions.open" => last.pflags = mask

\* An OPEN was sent with write and create the only options last switched
\* on.
C21_Witness ==
    /\ last.op = "OpenOptions.open"
    /\ last.pflags = <<10, 0>>
    /\ last.recent = [o \in Options |-> o \in {"write", "create"}]


\* A step of the router: it handled one frame, or the end of the stream.
RouterRead ==
    /\ caller' = caller
    /\ new' = new
    /\ requests' # requests \/ router' # router

\* The request id in the bytes of a frame: bytes 6..9, big-endian.
FrameId(b) == ((b[6] * Byte + b[7]) * Byte + b[8]) * Byte + b[9]

\* C22: a frame whose type byte names no known response decodes to
\* Unknown{that type byte, every payload byte after the request id}; when
\* a caller waits under the frame's id, the packet is sent to that caller
\* alone, its entry is removed, and the router keeps running with no
\* terminal error set.
C22_UnknownIsDelivered ==
    [][ (RouterRead /\ last'.bytes \in UnknownFrames) =>
          LET b  == last'.bytes
              id == FrameId(b)
              resp == [req_id |-> id,
                       packet |-> Packet("Unknown", "-",
                                         [msg_type |-> b[5],
                                          data |-> SubSeq(b, 10, Len(b))])]
          IN /\ last'.res = Ok(resp)
             /\ (id \in DOMAIN requests /\ RxAlive(requests[id])) =>
                   /\ chan' = SendAll({requests[id]}, Delivered(resp))
                   /\ requests' = remove(requests, id)
                   /\ router'.pc = "running"
                   /\ recv_error' = None
      ]_vars

\* A caller's send_receive returned the Unknown packet of a frame with a
\* payload, and the client has not failed.
C22_Witness ==
    /\ recv_error = None
    /\ router.pc = "running"
    /\ \E t \in Callers :
          /\ HasReturned(t)
          /\ caller[t].res.ok
          /\ caller[t].res.v.kind = "Unknown"
          /\ caller[t].res.v.n.data = <<7, 8>>
          /\ caller[t].res.rid = IdOf(caller[t].n)

\* C23: every malformed frame (a field cut short, a string that declares
\* more bytes than are left, bytes left over in the frame, a STATUS
\* message that is not UTF-8) makes packets::recv fail, so the router
\* broadcasts and stops, and no packet is delivered for it.
C23_MalformedIsError ==
    (last.op = "recv" /\ last.bytes \in MalformedFrames) =>
        /\ ~last.res.ok
        /\ router.pc # "running"


\* The positions of the write calls of call n in the write stream.
WritesOf(n) == {k \in 1..Len(w) : w[k].n = n}

\* C24: a call is in the pending table before the first write call of its
\* frame: a call not yet registered has written nothing, and a registered
\* call that is writing or about to write has its entry as long as the
\* router runs.  Hence, with a peer that answers only requests it has
\* received, the router never ends with NoMatchingRequest.
C24_InsertBeforeWrite ==
    /\ \A t \in Callers :
          /\ caller[t].pc = "alloc" => Written(caller[t].n) = 0
          /\ (caller[t].pc \in {"registered", "writing"} /\ router.pc = "running")
                => /\ IdOf(caller[t].n) \in DOMAIN requests
                   /\ requests[IdOf(caller[t].n)] = caller[t].n
    /\ router.e.name # "NoMatchingRequest"
    /\ recv_error.name # "NoMatchingRequest"

\* The peer has answered every request and the router still runs.
C24_Witness ==
    /\ router.pc = "running"
    /\ Answered = 0..(MaxReqs - 1)
    /\ \E t \in Callers : HasReturned(t) /\ caller[t].res.ok

\* C25: the write calls of one request frame occupy consecutive positions
\* of the write stream, in the order length, type, id, body, whatever the
\* other threads do.
C25_FramesContiguous ==
    \A n \in 0..(MaxReqs - 1) :
       \A k \in WritesOf(n) :
          LET first == CHOOSE j \in WritesOf(n) : \A i \in WritesOf(n) : j <= i
          IN /\ k - first < Written(n)
             /\ w[k].f = <<"len", "type", "id", "body">>[k - first + 1]

\* Both threads were inside send together: the frame of the later call 1
\* is in the stream, whole, ahead of the whole frame of call 0.
C25_Witness ==
    /\ \A n \in 0..1 : Written(n) = FrameWrites
    /\ \E k \in 1..Len(w) : w[k].n = 1 /\ \E j \in 1..Len(w) : j > k /\ w[j].n = 0


\* C26: two requests outstanding at the same time never share an id (the
\* runs allocate far fewer than 2^32 ids): calls under way in different
\* threads have different ids, and every entry of the pending table sits
\* under the id of the call it belongs to.
C26_OutstandingIdsDistinct ==
    /\ \A t, u \in Callers :
          (t # u /\ caller[t].pc \in InCall /\ caller[u].pc \in InCall)
             => IdOf(caller[t].n) # IdOf(caller[u].n)
    /\ \A i \in DOMAIN requests : IdOf(requests[i]) = i

\* Two requests are outstanding together, both registered and written.
C26_Witness ==
    /\ \A t \in Callers : caller[t].pc = "wait"
    /\ Cardinality(DOMAIN requests) = NumCallers


\* C27: once the router has stopped, for whatever reason, the pending
\* table is empty and recv_error is set.
C27_RouterExitIsClean ==
    router.pc \in {"exited", "panicked"} =>
        /\ requests = EmptyMap
        /\ recv_error # None

\* C28: whenever recv_error is set the pending table is empty, and once
\* set recv_error keeps its cause for good.
C28_TerminalErrorSticky ==
    /\ [](recv_error # None => requests = EmptyMap)
    /\ [][recv_error # None => recv_error' = recv_error]_vars

\* The terminal error was broadcast to a caller still waiting, and a later
\* call has already failed fast on the same cause.
C28_Witness ==
    /\ recv_error # None
    /\ requests = EmptyMap
    /\ \E t, u \in Callers :
          /\ caller[t].pc = "wait"
          /\ chan[caller[t].n] = << Err(ReceiverDisconnected(recv_error)) >>
          /\ HasReturned(u)
          /\ caller[u].n > caller[t].n
          /\ caller[u].res = Err(ReceiverDisconnected(recv_error))

\* C29: a response whose id has no entry makes the router send
\* ReceiverDisconnected(NoMatchingRequest(id)) to every waiter still in
\* the table, clear the table, set recv_error and exit; no caller is
\* handed the packet of that frame.
C29_NoMatchBroadcasts ==
    [][ (router.pc = "running" /\ router'.e.name = "NoMatchingRequest") =>
          /\ router'.pc = "exited"
          /\ recv_error' = router'.e
          /\ requests' = EmptyMap
          /\ \A n \in DOMAIN chan :
                chan'[n] =
                   IF \E i \in DOMAIN requests : requests[i] = n /\ RxAlive(n)
                   THEN Append(chan[n], Err(ReceiverDisconnected(router'.e)))
                   ELSE chan[n]
      ]_vars

\* C30 as stated: while recv_error is unset, every call that has entered
\* send_receive and not returned has its entry in the pending table.
C30_EntryWhileInCall ==
    recv_error = None =>
        \A t \in Callers :
           caller[t].pc \in InCall => IdOf(caller[t].n) \in DOMAIN requests

\* C30, amended: while recv_error is unset, every call that has passed the
\* insert of send and has not yet been sent its reply has its entry in the
\* pending table.
C30_EntryWhileRegistered ==
    recv_error = None =>
        \A t \in Callers :
           (/\ caller[t].pc \in {"registered", "writing", "wait"}
            /\ chan[caller[t].n] = << >>)
              => /\ IdOf(caller[t].n) \in DOMAIN requests
                 /\ requests[IdOf(caller[t].n)] = caller[t].n

\* One call has been answered and has returned while another, written
\* and not answered, keeps its entry.
C30_Witness ==
    /\ recv_error = None
    /\ \E t, u \in Callers :
          /\ caller[t].pc = "wait"
          /\ chan[caller[t].n] = << >>
          /\ requests = insert(EmptyMap, IdOf(caller[t].n), caller[t].n)
          /\ HasReturned(u)
          /\ caller[u].res.ok


\* C31: every id in the pending table belongs to a call whose
\* send_receive has not returned; a call that has returned, also on a
\* write error, has left no entry behind.
C31_NoStaleEntry ==
    \A i \in DOMAIN requests : RxAlive(requests[i])

\* C32: a reply or a broadcast addressed to the entry of a call that has
\* already returned does not stop the router abnormally, and no later
\* dispatcher call panics on the state lock.
C32_StaleEntryIsHarmless ==
    /\ router.pc # "panicked"
    /\ \A t \in Callers : caller[t].pc # "panicked"


\* Thread t waits for the state mutex, or for the write mutex.
WaitsState(t) == caller[t].pc = "alloc" /\ StateLock \notin {0, t} /\ ~Poisoned
WaitsWrite(t) == caller[t].pc = "registered" /\ w_lock # 0

\* C33: no thread holds the state mutex and the write mutex together, the
\* router never holds the write mutex, and whoever holds a mutex is not
\* waiting for one but can take its next step and release it; so no
\* cycle of threads waiting for each other's mutex exists.
C33_NoLockCycle ==
    /\ w_lock \in {0} \cup Callers
    /\ \A t \in Callers :
          /\ ~(StateLock = t /\ w_lock = t)
          /\ StateLock = t =>
                /\ ~WaitsWrite(t)
                /\ ENABLED RegisterLocked(t)
          /\ w_lock = t =>
                /\ ~WaitsState(t)
                /\ ENABLED (Write(t) \/ WriteFail(t))
    /\ StateLock = RouterThread => ENABLED RouterHandle

\* The state mutex and the write mutex are held at the same time, by two
\* different threads, while the router runs.
C33_Witness ==
    \E t, u \in Callers :
       /\ StateLock = t
       /\ w_lock = u
       /\ t # u
       /\ router.pc = "running"


\* C34: the write stream is a sequence of whole frames: once a failed
\* write has left a frame of fewer than four write calls in the stream,
\* nothing of any other request is written behind it.
C34_NoWriteAfterPartialFrame ==
    \A n \in 0..(MaxReqs - 1) :
       (Written(n) > 0 /\ Written(n) < FrameWrites /\ ~RxAlive(n)) =>
           \A k \in WritesOf(n) : \A j \in 1..Len(w) : j > k => w[j].n = n


\* C35: a waiter is only ever sent a packet whose frame carried the
\* waiter's request id; a VERSION frame, which carries none, is sent to
\* nobody as the reply to a request.
C35_VersionIsNoReply ==
    /\ \A n \in DOMAIN chan : \A k \in 1..Len(chan[n]) :
          chan[n][k].ok => chan[n][k].v.kind # "Version"
    /\ \A t \in Callers :
          (HasReturned(t) /\ caller[t].res.ok) => caller[t].res.v.kind # "Version"


\* A call of thread t is outstanding: registered and not yet answered.
WrapOutstanding(t) ==
    /\ caller[t].pc \in {"registered", "writing", "wait"}
    /\ chan[t] = << >>

\* C36: ids are the counter modulo 2^32, and after the counter has
\* wrapped two requests outstanding together share an id only if 2^32
\* requests are live at once: with a handful of threads no two
\* outstanding calls have the same id.
C36_WrapNeedsAllIdsLive ==
    \A t, u \in Callers :
       (t # u /\ WrapOutstanding(t) /\ WrapOutstanding(u))
          => as_ReqId(caller[t].n) # as_ReqId(caller[u].n)


\* C37: every frame written starts with a length word equal to the number
\* of bytes written behind it: 1 + 4 + the body for a request, 1 + the
\* body for INIT.
C37_LengthWordCountsFrame ==
    (last.op \in FrameOps \cup {"init"} /\ last.written) =>
        last.following = [j \in 1..U64Limbs |->
                             IF j <= U32Limbs THEN last.len[j] ELSE 0]


\* C38: packets::recv reads nothing beyond the declared length (a frame
\* whose decoder reads to the end gets the bytes of its own payload only),
\* gives a VERSION frame the id 0 and reads the id of every other frame
\* from its payload, and fails with UnexpectedData when the decoder
\* leaves declared bytes unread.
C38_FramerKeepsToLength ==
    last.op = "recv" =>
        /\ last.bytes \in TrailingFrames =>
              last.res = Ok([req_id |-> 0,
                             packet |-> Packet("Unknown", "-",
                                               [msg_type |-> UnknownType,
                                                data |-> <<7, 8>>])])
        /\ last.bytes \in VersionFrames =>
              /\ last.res.ok
              /\ last.res.v.req_id = 0
              /\ last.res.v.packet.kind = "Version"
        /\ (last.res.ok /\ last.bytes \notin VersionFrames) =>
              last.res.v.req_id = FrameId(last.bytes)
        /\ last.bytes \in LeftoverFrames => last.res = Err(UnexpectedData)

\* The router has read a frame that had the next frame behind it in the
\* stream, and handed its packet to the waiter of its id.
C38_Witness ==
    /\ last.op = "recv"
    /\ last.bytes \in TrailingFrames
    /\ \E n \in DOMAIN chan : chan[n] # << >> /\ chan[n][1] = Delivered(last.res.v)

====
